---- MODULE Spec2Model ----
(***************************************************************************)
(* Model of the streaming tool-call orchestrator of gamemaster-client:     *)
(* composables/useChatStream.ts (openToolAwareChatStream, openChatStream,  *)
(* formatToolMessages) and composables/useToolCalling.ts (executeMcpTools).*)
(*                                                                         *)
(* Text that the code handles character by character (tool-call argument   *)
(* fragments, JSON) is a sequence of one-character strings.  Text that the *)
(* code handles as a whole (assistant text deltas, tool names) is a token. *)
(***************************************************************************)
EXTENDS Integers, Sequences, FiniteSets, TLC

VARIABLES
  plan,                  \* environment: what each iteration's stream and tools will do
  pc,                    \* position of the run / gateway / assembler
  iteration,             \* let iteration
  pos,                   \* frames of the current stream already delivered
  esOpen,                \* the EventSource of the current stream is open
  activeToolCalls,       \* Map<string, any> of the iteration, in insertion order
  hasToolCalls,          \* let hasToolCalls
  pendingDeltas,         \* Record<number, string>
  finalArgumentsByIndex, \* Record<number, string>
  fullAssistantResponse, \* let fullAssistantResponse (sequence of text deltas)
  failedToolCalls,       \* Set<string> of failed signatures
  payload,               \* currentPayload: provider, messages, input
  client,                \* module-level MCP client is connected
  gwCalls,               \* toolCalls argument of executeMcpTools
  gwResults,             \* results array of executeMcpTools
  gwRaised,              \* executeMcpTools rejected
  onTextLog,             \* calls of the caller's onText, in order
  onErrorLog,            \* calls of the caller's onError, in order
  onDoneCount,           \* calls of the caller's opts.onDone
  warnLog,               \* warning-level conditions logged by the run
  streamsOpened,         \* history: number of openChatStream calls of the run
  rxText,                \* history: text deltas delivered by the streams, in order
  errIter,               \* history: iterations whose stream surfaced an error
  execLog,               \* history: one record per call handed to callTool paths
  turnLog,               \* history: iterations that appended tool turns
  evLog,                 \* history: tool events delivered to a free-running assembler
  stop,                  \* useChat: stop.value, the active stream closer or null
  assistantContent,      \* useChat: content of the reactive assistant placeholder
  pendingUi,             \* useChat: let pending, text not yet flushed to the placeholder
  recordLog,             \* calls of recordInteraction, in order
  otherRun,              \* position of a second sendMessage of the same useChat
  cancelled,             \* history: cancel was called while the run was in progress
  runRejected,           \* history: the promise of openToolAwareChatStream rejected
  exitPath,              \* history: the way the loop was left
  lastSent,              \* history: turn lists serialized into the latest session request
  iterLog,               \* history: text, calls and results of each iteration that appended
  sampling,              \* handleSamplingRequest: position, params, payload, stream, response
  plain,                 \* useChat.ts: one sendMessage over openChatStream
  strm,                  \* one stream: streamSimpleResponse and its EventSource consumer
  chatStore,             \* server: __CHAT_STORE__, its timers and the stream requests
  rpcSt,                 \* useMcp: inMemorySid, initializing, the rpc calls and the server
  mcpConn,               \* useMcpClient: client, connecting, the withClient calls
  toolFilter,            \* filterToolsByModes: arguments and result of the last call
  pager                  \* useStreamPagination: refs and history of one paginator

vars == <<plan, pc, iteration, pos, esOpen, activeToolCalls, hasToolCalls,
          pendingDeltas, finalArgumentsByIndex, fullAssistantResponse,
          failedToolCalls, payload, client, gwCalls, gwResults, gwRaised,
          onTextLog, onErrorLog, onDoneCount, warnLog, streamsOpened, rxText,
          errIter, execLog, turnLog, evLog, stop, assistantContent, pendingUi,
          recordLog, otherRun, cancelled, runRejected, exitPath, lastSent, iterLog,
          sampling, plain, strm, chatStore, rpcSt, mcpConn, toolFilter, pager>>

sideVars == <<sampling, plain, strm, chatStore, rpcSt, mcpConn, toolFilter, pager>>

exitVars == <<stop, recordLog, runRejected, exitPath>>
uiVars == <<assistantContent, otherRun, cancelled>>

(***************************************************************************)
(* Bounds of the model.                                                    *)
(***************************************************************************)
PlanLen == 2        \* iterations whose script is chosen freely; the last one repeats
MaxAsmEvents == 4   \* tool events delivered to one free-running assembler
MaxGwCalls == 2     \* calls handed to one free-running gateway
MaxIdx == 1         \* vendor-B output positions 0..MaxIdx keep their deltas
MaxSamplingFrames == 3  \* frames delivered to one sampling request
MaxPlainDeltas == 3     \* text deltas delivered to one plain sendMessage
MaxUpstreamEvents == 3  \* vendor events read by one streamSimpleResponse
MaxCloseCalls == 1      \* calls of the close function that openChatStream returned
MaxSessions == 2        \* session ids created by POST /api/chat/session
MaxStreamRequests == 3  \* GET /api/chat/stream requests
MaxTicks == 3           \* steps of the server's clock
MaxRpcCalls == 2        \* concurrent calls of useMcp().rpc
MaxExpiries == 1        \* times the MCP server forgets its sessions
MaxWithClientCalls == 2 \* concurrent calls of withClient
MaxTools == 2           \* tools in the list handed to filterToolsByModes
MaxPagerDeltas == 4     \* deltas handed to one paginator after an init

(***************************************************************************)
(* Program constants.                                                      *)
(***************************************************************************)
maxIterations == 20
sessionTtlMs == 120000

(***************************************************************************)
(* Small helpers.                                                          *)
(***************************************************************************)
Min(a, b) == IF a < b THEN a ELSE b

RECURSIVE Count(_, _)
Count(s, c) ==
  IF s = <<>> THEN 0
  ELSE (IF Head(s) = c THEN 1 ELSE 0) + Count(Tail(s), c)

RECURSIVE Flatten(_)
Flatten(ss) == IF ss = <<>> THEN <<>> ELSE Head(ss) \o Flatten(Tail(ss))

(***************************************************************************)
(* JSON.  A value is a number (its digits), a string (its characters) or   *)
(* an object (its members in insertion order).                             *)
(***************************************************************************)
LB == "{"
RB == "}"
QT == "\""
CL == ":"
CM == ","
Digits == {"1", "2"}

JNull == [t |-> "null", s |-> <<>>, m |-> <<>>]
JNum(ds) == [t |-> "num", s |-> ds, m |-> <<>>]
JStr(cs) == [t |-> "str", s |-> cs, m |-> <<>>]
JObj(ms) == [t |-> "obj", s |-> <<>>, m |-> ms]
EmptyObj == JObj(<<>>)

PFail == [ok |-> FALSE, v |-> JNull, i |-> 0]
POk(v, i) == [ok |-> TRUE, v |-> v, i |-> i]

\* index of the first quote at or after i, 0 when there is none
RECURSIVE NextQuote(_, _)
NextQuote(s, i) ==
  IF i > Len(s) THEN 0
  ELSE IF s[i] = QT THEN i
  ELSE NextQuote(s, i + 1)

ScanString(s, i) ==
  IF i > Len(s) \/ s[i] # QT THEN PFail
  ELSE LET j == NextQuote(s, i + 1) IN
       IF j = 0 THEN PFail ELSE POk(JStr(SubSeq(s, i + 1, j - 1)), j + 1)

RECURSIVE DigitsEnd(_, _)
DigitsEnd(s, i) ==
  IF i <= Len(s) /\ s[i] \in Digits THEN DigitsEnd(s, i + 1) ELSE i

\* an object keeps one member per key: a repeated key overwrites in place
PutMember(ms, k, v) ==
  IF \E n \in 1..Len(ms) : ms[n].k = k
  THEN [n \in 1..Len(ms) |-> IF ms[n].k = k THEN [k |-> k, v |-> v] ELSE ms[n]]
  ELSE Append(ms, [k |-> k, v |-> v])

RECURSIVE ParseValue(_, _), ParseMembers(_, _, _)
ParseValue(s, i) ==
  IF i > Len(s) THEN PFail
  ELSE IF s[i] = LB THEN
    IF i + 1 <= Len(s) /\ s[i + 1] = RB THEN POk(EmptyObj, i + 2)
    ELSE ParseMembers(s, i + 1, <<>>)
  ELSE IF s[i] = QT THEN ScanString(s, i)
  ELSE IF s[i] \in Digits THEN
    LET j == DigitsEnd(s, i) IN POk(JNum(SubSeq(s, i, j - 1)), j)
  ELSE PFail

ParseMembers(s, i, acc) ==
  LET k == ScanString(s, i) IN
  IF ~k.ok \/ k.i > Len(s) \/ s[k.i] # CL THEN PFail
  ELSE LET v == ParseValue(s, k.i + 1) IN
    IF ~v.ok \/ v.i > Len(s) THEN PFail
    ELSE LET acc2 == PutMember(acc, k.v.s, v.v) IN
      IF s[v.i] = RB THEN POk(JObj(acc2), v.i + 1)
      ELSE IF s[v.i] = CM THEN ParseMembers(s, v.i + 1, acc2)
      ELSE PFail

\* JSON.parse: ok is FALSE where JSON.parse throws
JSONparse(s) ==
  LET r == ParseValue(s, 1) IN
  IF r.ok /\ r.i = Len(s) + 1 THEN [ok |-> TRUE, v |-> r.v]
  ELSE [ok |-> FALSE, v |-> JNull]

RECURSIVE JSONstringify(_), StringifyMembers(_)
JSONstringify(v) ==
  IF v.t = "num" THEN v.s
  ELSE IF v.t = "str" THEN <<QT>> \o v.s \o <<QT>>
  ELSE IF v.t = "obj" THEN <<LB>> \o StringifyMembers(v.m) \o <<RB>>
  ELSE <<"n", "u", "l", "l">>

StringifyMembers(ms) ==
  IF ms = <<>> THEN <<>>
  ELSE <<QT>> \o ms[1].k \o <<QT, CL>> \o JSONstringify(ms[1].v)
       \o (IF Len(ms) > 1 THEN <<CM>> ELSE <<>>) \o StringifyMembers(Tail(ms))

(***************************************************************************)
(* Tool-use events as openChatStream forwards them to onToolUseEvent.      *)
(***************************************************************************)
NoId == <<>>
Idx == 0..MaxIdx

Ev(type) ==
  [type |-> type, id |-> NoId, name |-> "", input |-> JNull, frag |-> <<>>,
   idx |-> 0, output |-> <<>>]
ToolUseStart(id, name, input) ==
  [Ev("tool_use_start") EXCEPT !.id = id, !.name = name, !.input = input]
ToolInputDelta(frag) == [Ev("tool_input_delta") EXCEPT !.frag = frag]
ToolUseComplete == Ev("tool_use_complete")
ArgsDelta(idx, frag) ==
  [Ev("function_call_arguments_delta") EXCEPT !.idx = idx, !.frag = frag]
ArgsDone(idx, args) ==
  [Ev("function_call_arguments_done") EXCEPT !.idx = idx, !.frag = args]
ResponseCompleted(output) == [Ev("response_completed") EXCEPT !.output = output]

FunctionCallItem(callId, name, arguments) ==
  [type |-> "function_call", call_id |-> callId, name |-> name, arguments |-> arguments]
MessageItem ==
  [type |-> "message", call_id |-> NoId, name |-> "", arguments |-> <<>>]

(***************************************************************************)
(* The assembler: activeToolCalls, hasToolCalls, pendingDeltas and         *)
(* finalArgumentsByIndex of one iteration, and the onToolUseEvent callback.*)
(***************************************************************************)
JsTruthy(v) == ~(v.t = "null" \/ (v.t = "str" /\ v.s = <<>>))

NoDeltas == [i \in Idx |-> <<>>]

AsmInit == [atc |-> <<>>, has |-> FALSE, pd |-> NoDeltas, fa |-> NoDeltas]

\* Map.set: a present key keeps its place, a new key goes last
MapSet(atc, e) ==
  IF \E n \in 1..Len(atc) : atc[n].id = e.id
  THEN [n \in 1..Len(atc) |-> IF atc[n].id = e.id THEN e ELSE atc[n]]
  ELSE Append(atc, e)

Eligible_IgnoresInputComplete(tc) == ~tc.complete

Eligible(tc) == ~tc.complete /\ ~tc.inputComplete

TargetIndex_First(atc) ==
  LET E == {n \in 1..Len(atc) : Eligible(atc[n])} IN
  IF E = {} THEN 0 ELSE CHOOSE n \in E : \A m \in E : n <= m

\* index of the last eligible call, 0 when there is none
TargetIndex(atc) ==
  LET E == {n \in 1..Len(atc) : Eligible(atc[n])} IN
  IF E = {} THEN 0 ELSE CHOOSE n \in E : \A m \in E : m <= n

BracesBalanced(s) == Count(s, LB) > 0 /\ Count(s, LB) = Count(s, RB)

OnToolUseStart(st, ev) ==
  [st EXCEPT
     !.has = TRUE,
     !.atc = MapSet(st.atc,
        [id |-> ev.id, name |-> ev.name,
         input |-> IF JsTruthy(ev.input) THEN ev.input ELSE EmptyObj,
         inputJson |-> <<>>, complete |-> FALSE, inputComplete |-> FALSE])]

OnToolInputDelta(st, ev) ==
  LET t == TargetIndex(st.atc) IN
  IF ev.frag = <<>> \/ t = 0 THEN st
  ELSE LET json == st.atc[t].inputJson \o ev.frag IN
    [st EXCEPT !.atc[t].inputJson = json,
               !.atc[t].inputComplete = BracesBalanced(json)]

OnToolUseComplete_OnlyWithFragments(st) ==
  [st EXCEPT !.atc =
    [n \in 1..Len(st.atc) |->
      LET tc == st.atc[n] IN
      IF tc.inputJson # <<>> /\ ~tc.inputComplete
      THEN [tc EXCEPT !.complete = TRUE, !.inputComplete = TRUE,
                      !.input = IF JSONparse(tc.inputJson).ok
                                THEN JSONparse(tc.inputJson).v ELSE tc.input]
      ELSE tc]]

OnToolUseComplete(st) ==
  [st EXCEPT !.atc =
    [n \in 1..Len(st.atc) |->
      LET tc == st.atc[n] IN
      IF tc.inputJson # <<>> /\ ~tc.inputComplete
      THEN [tc EXCEPT !.complete = TRUE, !.inputComplete = TRUE,
                      !.input = IF JSONparse(tc.inputJson).ok
                                THEN JSONparse(tc.inputJson).v ELSE tc.input]
      ELSE [tc EXCEPT !.complete = TRUE]]]

OnArgumentsDelta_Mints(st, ev) ==
  [st EXCEPT !.has = TRUE, !.pd[ev.idx] = @ \o ev.frag,
             !.atc = Append(st.atc,
                [id |-> <<"index_", ToString(ev.idx)>>, name |-> "unknown",
                 input |-> EmptyObj, inputJson |-> ev.frag, complete |-> FALSE,
                 inputComplete |-> FALSE])]

OnArgumentsDelta(st, ev) ==
  [st EXCEPT !.has = TRUE, !.pd[ev.idx] = @ \o ev.frag]

OnArgumentsDone(st, ev) ==
  IF st.fa[ev.idx] = <<>> THEN [st EXCEPT !.fa[ev.idx] = ev.frag] ELSE st

\* outputArray.forEach from item n on; index is the 0-based position n - 1
RECURSIVE SummaryItems(_, _, _, _)
SummaryItems(atc, pd, output, n) ==
  IF n > Len(output) THEN atc
  ELSE LET item == output[n] IN
    IF item.type # "function_call" THEN SummaryItems(atc, pd, output, n + 1)
    ELSE SummaryItems(
      MapSet(atc,
        [id |-> item.call_id, name |-> item.name,
         input |-> IF JSONparse(item.arguments).ok
                   THEN JSONparse(item.arguments).v ELSE EmptyObj,
         inputJson |-> IF (n - 1) \in Idx THEN pd[n - 1] ELSE <<>>,
         complete |-> TRUE, inputComplete |-> TRUE]),
      pd, output, n + 1)

OnResponseCompleted(st, ev) ==
  [st EXCEPT !.atc = SummaryItems(st.atc, st.pd, ev.output, 1)]

OnToolUseEvent(st, ev) ==
  IF ev.type = "tool_use_start" THEN OnToolUseStart(st, ev)
  ELSE IF ev.type = "tool_input_delta" THEN OnToolInputDelta(st, ev)
  ELSE IF ev.type = "tool_use_complete" THEN OnToolUseComplete(st)
  ELSE IF ev.type = "function_call_arguments_delta" THEN OnArgumentsDelta(st, ev)
  ELSE IF ev.type = "function_call_arguments_done" THEN OnArgumentsDone(st, ev)
  ELSE IF ev.type = "response_completed" THEN OnResponseCompleted(st, ev)
  ELSE st

(***************************************************************************)
(* End of stream: the entries of activeToolCalls become call records.      *)
(***************************************************************************)
ToolCall(id, name, arguments) == [id |-> id, name |-> name, arguments |-> arguments]

FinalInput(tc) ==
  IF tc.inputJson # <<>> /\ JSONparse(tc.inputJson).ok
  THEN JSONparse(tc.inputJson).v
  ELSE tc.input

RECURSIVE CompletedToolCalls_DropsUnparsed(_)
CompletedToolCalls_DropsUnparsed(atc) ==
  IF atc = <<>> THEN <<>>
  ELSE LET tc == Head(atc) IN
    (IF tc.id = NoId \/ tc.name = "" \/ (tc.inputJson # <<>> /\ ~JSONparse(tc.inputJson).ok)
     THEN <<>>
     ELSE <<ToolCall(tc.id, tc.name, JSONstringify(FinalInput(tc)))>>)
    \o CompletedToolCalls_DropsUnparsed(Tail(atc))

RECURSIVE CompletedToolCalls(_)
CompletedToolCalls(atc) ==
  IF atc = <<>> THEN <<>>
  ELSE LET tc == Head(atc) IN
    (IF tc.id = NoId \/ tc.name = "" THEN <<>>
     ELSE <<ToolCall(tc.id, tc.name, JSONstringify(FinalInput(tc)))>>)
    \o CompletedToolCalls(Tail(atc))

Signature(tc) == <<tc.name, CL>> \o tc.arguments

(***************************************************************************)
(* The tool gateway, executeMcpTools.  A result's content is a sequence of *)
(* tokens; the first token of a template literal is its leading word.      *)
(***************************************************************************)
Outcomes == {"ok", "okE", "fail", "failE", "throw"}

ToolResult(id, content) == [tool_call_id |-> id, content |-> content]

StartsWithError(content) == Len(content) > 0 /\ content[1] = "Error"

\* what client.callTool resolves to for each outcome of the tool runtime
McpResult(outcome) ==
  IF outcome = "ok" THEN [isError |-> FALSE, text |-> <<"rolled", " 7">>]
  ELSE IF outcome = "okE" THEN [isError |-> FALSE, text |-> <<"Error", " codes: none">>]
  ELSE IF outcome = "fail" THEN [isError |-> TRUE, text |-> <<"unknown", " character">>]
  ELSE [isError |-> TRUE, text |-> <<"Error", ": unknown character">>]

\* the conversion of an MCP result to a string: content[0].text when present
ResultContent(r) ==
  IF r.text # <<>> THEN r.text ELSE <<"{", "\"content\": []", "}">>

ParseErrorResult(tc) ==
  ToolResult(tc.id, <<"Error", " parsing tool arguments: ", "Unexpected end of JSON input">>)

ThrownResult(tc) ==
  ToolResult(tc.id, <<"Error", " executing tool ", tc.name, ": ", "fetch failed">>)

\* the result pushed for a call whose arguments parsed, by outcome of callTool
CallResult(tc, outcome) ==
  IF outcome = "throw" THEN ThrownResult(tc)
  ELSE ToolResult(tc.id, ResultContent(McpResult(outcome)))

\* the for loop runs on without suspending over calls whose arguments do not parse
RECURSIVE SkipParseErrors(_, _)
SkipParseErrors(calls, results) ==
  IF Len(results) < Len(calls) /\ ~JSONparse(calls[Len(results) + 1].arguments).ok
  THEN SkipParseErrors(calls, Append(results, ParseErrorResult(calls[Len(results) + 1])))
  ELSE results

\* results once getClient has resolved, up to the first await of callTool
GwStart(calls) == SkipParseErrors(calls, <<>>)

\* results once the pending callTool has settled, up to the next await
GwStep(calls, results, outcome) ==
  SkipParseErrors(calls, Append(results, CallResult(calls[Len(results) + 1], outcome)))

GwFinished(calls, results) == Len(results) = Len(calls)

(***************************************************************************)
(* formatToolMessages and the update of currentPayload.                    *)
(***************************************************************************)
RECURSIVE TrimLeft(_)
TrimLeft(s) == IF s # <<>> /\ Head(s) = " " THEN TrimLeft(Tail(s)) ELSE s

RECURSIVE TrimRight(_)
TrimRight(s) ==
  IF s # <<>> /\ s[Len(s)] = " " THEN TrimRight(SubSeq(s, 1, Len(s) - 1)) ELSE s

Trim(s) == TrimRight(TrimLeft(s))

\* String.prototype.replace with a string pattern: the first occurrence only
RECURSIVE RemoveFirst(_, _)
RemoveFirst(s, tok) ==
  IF s = <<>> THEN <<>>
  ELSE IF Head(s) = tok THEN Tail(s)
  ELSE <<Head(s)>> \o RemoveFirst(Tail(s), tok)

TextBlock(text) == [type |-> "text", text |-> text]
ToolUseBlock_RawArguments(tc) ==
  [type |-> "tool_use", id |-> tc.id, name |-> tc.name, input |-> JStr(tc.arguments)]

ToolUseBlock(tc) ==
  [type |-> "tool_use", id |-> tc.id, name |-> tc.name,
   input |-> JSONparse(tc.arguments).v]
ToolResultBlock(r) ==
  [type |-> "tool_result", tool_use_id |-> r.tool_call_id, content |-> r.content]
Message(role, content) == [role |-> role, content |-> content]
FunctionCall_ItemIdAsCallId(tc) ==
  [type |-> "function_call", id |-> <<"fc_">> \o RemoveFirst(tc.id, "call_"),
   call_id |-> <<"fc_">> \o RemoveFirst(tc.id, "call_"), name |-> tc.name,
   arguments |-> tc.arguments]

FunctionCall(tc) ==
  [type |-> "function_call", id |-> <<"fc_">> \o RemoveFirst(tc.id, "call_"),
   call_id |-> tc.id, name |-> tc.name, arguments |-> tc.arguments]
FunctionCallOutput(r) ==
  [type |-> "function_call_output", call_id |-> r.tool_call_id, output |-> r.content]

\* formatToolMessages throws: JSON.parse of a call's arguments (vendor A),
\* a result without tool_call_id (vendor B)
FormatThrows(toolCalls, toolResults, baseProvider) ==
  IF baseProvider = "anthropic"
  THEN \E n \in 1..Len(toolCalls) : ~JSONparse(toolCalls[n].arguments).ok
  ELSE \E n \in 1..Len(toolResults) : toolResults[n].tool_call_id = NoId

formatToolMessages_DropFailed(fullResponse, toolCalls, toolResults, baseProvider) ==
  LET kept == SelectSeq(toolResults, LAMBDA r : ~StartsWithError(r.content)) IN
  IF baseProvider = "anthropic"
  THEN [assistantMessage |->
          Message("assistant",
            (IF Trim(fullResponse) # <<>> THEN <<TextBlock(fullResponse)>> ELSE <<>>)
            \o [n \in 1..Len(toolCalls) |-> ToolUseBlock(toolCalls[n])]),
        toolResultMessages |-> <<Message("user", [n \in 1..Len(kept) |-> ToolResultBlock(kept[n])])>>]
  ELSE [assistantMessage |-> Message("assistant", fullResponse),
        toolResultMessages |->
          [n \in 1..Len(toolCalls) |-> FunctionCall(toolCalls[n])] \o [n \in 1..Len(kept) |-> FunctionCallOutput(kept[n])]]

formatToolMessages(fullResponse, toolCalls, toolResults, baseProvider) ==
  IF baseProvider = "anthropic"
  THEN [assistantMessage |->
          Message("assistant",
            (IF Trim(fullResponse) # <<>> THEN <<TextBlock(fullResponse)>> ELSE <<>>)
            \o [n \in 1..Len(toolCalls) |-> ToolUseBlock(toolCalls[n])]),
        toolResultMessages |->
          <<Message("user", [n \in 1..Len(toolResults) |-> ToolResultBlock(toolResults[n])])>>]
  ELSE [assistantMessage |-> Message("assistant", fullResponse),
        toolResultMessages |->
          [n \in 1..Len(toolCalls) |-> FunctionCall(toolCalls[n])] \o [n \in 1..Len(toolResults) |-> FunctionCallOutput(toolResults[n])]]

HasRoleAndContent(item) ==
  /\ "role" \in DOMAIN item
  /\ item.role # ""
  /\ item.content # <<>>

RoleContent(m) == Message(m.role, m.content)

\* "Update payload for next iteration"
UpdatePayload(p, fullResponse, fm) ==
  IF p.provider = "anthropic"
  THEN [p EXCEPT !.messages = p.messages \o <<fm.assistantMessage>> \o fm.toolResultMessages]
  ELSE LET existingInput == IF p.hasInput THEN p.input ELSE [n \in 1..Len(p.messages) |-> RoleContent(p.messages[n])]
           newInput == existingInput \o <<Message("assistant", fullResponse)>>
                       \o fm.toolResultMessages
       IN [p EXCEPT !.input = newInput, !.hasInput = TRUE,
                    !.messages = SelectSeq(newInput, HasRoleAndContent)]

NewToolCalls_NoFilter(completed, failed) == completed

\* the calls whose signature has not failed before
RECURSIVE NewToolCalls(_, _)
NewToolCalls(completed, failed) ==
  IF completed = <<>> THEN <<>>
  ELSE (IF Signature(Head(completed)) \in failed THEN <<>> ELSE <<Head(completed)>>)
       \o NewToolCalls(Tail(completed), failed)

TrackFailed_Never(failed, calls, results) == failed

\* "Track failed tool calls"
TrackFailed(failed, calls, results) ==
  failed \cup {Signature(calls[n]) : n \in {m \in 1..Len(results) : StartsWithError(results[m].content)}}

(***************************************************************************)
(* Frames of the event stream as the EventSource delivers them.            *)
(***************************************************************************)
Frame(ch) ==
  [ch |-> ch, json |-> TRUE, hasText |-> FALSE, text |-> <<>>, done |-> FALSE,
   ev |-> Ev("none")]
TextFrame(t) == [Frame("message") EXCEPT !.hasText = TRUE, !.text = t]
DoneFrame == [Frame("message") EXCEPT !.done = TRUE]
NoiseFrame == [Frame("message") EXCEPT !.json = FALSE]
LlmErrorFrame == Frame("llm-error")
TransportError == Frame("onerror")
ToolFrame(ev) == [Frame("tool") EXCEPT !.ev = ev]

\* fragments of argument text
K1 == <<LB, QT, "k", QT, CL, "1", RB>>
K2 == <<LB, QT, "k", QT, CL, "2", RB>>
K1a == <<LB, QT, "k">>
K1b == <<QT, CL, "1", RB>>
S1a == <<LB, QT, "k", QT, CL, QT, RB>>
S1b == <<LB, QT, RB>>

TId(it, n) == <<"toolu_", ToString(it), ToString(n)>>
CId(it, n) == <<"call_", ToString(it), ToString(n)>>

\* one vendor-A tool-use block: start, input fragments, block stop
BlockA(id, name, frags) ==
  <<ToolFrame(ToolUseStart(id, name, EmptyObj))>>
  \o [n \in 1..Len(frags) |-> ToolFrame(ToolInputDelta(frags[n]))]
  \o <<ToolFrame(ToolUseComplete)>>

TextA == <<TextFrame(<<"a">>), TextFrame(<<" ">>), ToolFrame(ToolUseComplete)>>

IterScript(openOk, frames, connectOk, outcomes) ==
  [openOk |-> openOk, frames |-> frames, connectOk |-> connectOk, outcomes |-> outcomes]

ScriptNamesA ==
  {"text", "call", "callThrow", "callFail", "callOkE", "two", "trip",
   "errMid", "dieMid", "openFail", "errNoTool", "noConnect", "lastText",
   "errThenMore", "noisy"}
ScriptNamesB ==
  {"bText", "bCall", "bCallThrow", "bTwo", "bSummaryOnly", "bDeltasOnly", "bErrMid"}
ScriptNames(provider) == IF provider = "anthropic" THEN ScriptNamesA ELSE ScriptNamesB

OneCallA(it) == TextA \o BlockA(TId(it, 1), "roll_dice", <<K1a, K1b>>) \o <<DoneFrame>>

OneCallB(it) ==
  <<TextFrame(<<"b">>),
    ToolFrame(ArgsDelta(0, K1a)), ToolFrame(ArgsDelta(0, <<QT, CL>>)),
    ToolFrame(ArgsDelta(0, <<"1", RB>>)), ToolFrame(ArgsDone(0, K1)),
    ToolFrame(ResponseCompleted(<<FunctionCallItem(CId(it, 1), "roll_dice", K1)>>)),
    DoneFrame>>

\* what the stream and the tool runtime do in iteration it under script name
Script(name, it) ==
  CASE name = "text" -> IterScript(TRUE, TextA \o <<DoneFrame>>, TRUE, <<>>)
    [] name = "call" -> IterScript(TRUE, OneCallA(it), TRUE, <<"ok">>)
    [] name = "callThrow" -> IterScript(TRUE, OneCallA(it), TRUE, <<"throw">>)
    [] name = "callFail" -> IterScript(TRUE, OneCallA(it), TRUE, <<"fail">>)
    [] name = "callOkE" -> IterScript(TRUE, OneCallA(it), TRUE, <<"okE">>)
    [] name = "two" ->
         IterScript(TRUE,
           BlockA(TId(it, 1), "roll_dice", <<K1>>)
           \o BlockA(TId(it, 2), "look", <<K2>>) \o <<DoneFrame>>,
           TRUE, <<"throw", "ok">>)
    [] name = "trip" ->
         IterScript(TRUE,
           BlockA(TId(it, 1), "roll_dice", <<K1>>)
           \o BlockA(TId(it, 2), "roll_dice", <<K1>>)
           \o BlockA(TId(it, 3), "roll_dice", <<K1>>) \o <<DoneFrame>>,
           TRUE, <<"throw", "throw", "throw">>)
    [] name = "errMid" ->
         IterScript(TRUE,
           BlockA(TId(it, 1), "look", <<K2>>) \o <<LlmErrorFrame, DoneFrame>>,
           TRUE, <<"failE">>)
    [] name = "dieMid" ->
         IterScript(TRUE,
           <<TextFrame(<<"a">>), ToolFrame(ToolUseStart(TId(it, 1), "look", EmptyObj)),
             TransportError>>,
           TRUE, <<"ok">>)
    [] name = "openFail" -> IterScript(FALSE, <<>>, TRUE, <<>>)
    [] name = "errNoTool" ->
         IterScript(TRUE, <<TextFrame(<<"a">>), NoiseFrame, LlmErrorFrame>>, TRUE, <<>>)
    [] name = "noConnect" -> IterScript(TRUE, OneCallA(it), FALSE, <<"ok">>)
    [] name = "lastText" ->
         IF it < maxIterations THEN IterScript(TRUE, OneCallA(it), TRUE, <<"ok">>)
         ELSE IterScript(TRUE, TextA \o <<DoneFrame>>, TRUE, <<>>)
    [] name = "errThenMore" ->
         IterScript(TRUE,
           <<TextFrame(<<"a">>), LlmErrorFrame, TextFrame(<<"z">>),
             ToolFrame(ToolUseStart(TId(it, 1), "look", EmptyObj)),
             [LlmErrorFrame EXCEPT !.json = FALSE], DoneFrame>>,
           TRUE, <<>>)
    [] name = "noisy" ->
         IterScript(TRUE,
           <<TextFrame(<<"a">>), NoiseFrame,
             ToolFrame(ToolUseStart(TId(it, 1), "roll_dice", EmptyObj)),
             [ToolFrame(ToolInputDelta(K2)) EXCEPT !.json = FALSE],
             ToolFrame(ToolInputDelta(K1)), ToolFrame(ToolUseComplete),
             NoiseFrame, TextFrame(<<"z">>), DoneFrame>>,
           TRUE, <<"ok">>)
    [] name = "bText" -> IterScript(TRUE, <<TextFrame(<<"b">>), DoneFrame>>, TRUE, <<>>)
    [] name = "bCall" -> IterScript(TRUE, OneCallB(it), TRUE, <<"ok">>)
    [] name = "bCallThrow" -> IterScript(TRUE, OneCallB(it), TRUE, <<"throw">>)
    [] name = "bTwo" ->
         IterScript(TRUE,
           <<ToolFrame(ArgsDelta(0, K1)), ToolFrame(ArgsDelta(1, K2)),
             ToolFrame(ResponseCompleted(
               <<FunctionCallItem(CId(it, 1), "roll_dice", K1),
                 FunctionCallItem(CId(it, 2), "look", K2), MessageItem>>)),
             DoneFrame>>,
           TRUE, <<"failE", "ok">>)
    [] name = "bSummaryOnly" ->
         IterScript(TRUE,
           <<ToolFrame(ResponseCompleted(<<FunctionCallItem(CId(it, 1), "look", <<LB, RB>>)>>)),
             DoneFrame>>,
           TRUE, <<"ok">>)
    [] name = "bDeltasOnly" ->
         IterScript(TRUE, <<ToolFrame(ArgsDelta(0, K1a)), DoneFrame>>, TRUE, <<>>)
    [] name = "bErrMid" ->
         IterScript(TRUE,
           <<ToolFrame(ArgsDelta(0, K1)),
             ToolFrame(ResponseCompleted(<<FunctionCallItem(CId(it, 1), "roll_dice", K1)>>)),
             TransportError>>,
           TRUE, <<"ok">>)

\* the script of the current iteration: the plan's last entry repeats
Cur == Script(plan[Min(iteration, Len(plan))], iteration)

OutcomeAt(n) == IF n <= Len(Cur.outcomes) THEN Cur.outcomes[n] ELSE "ok"

(***************************************************************************)
(* openChatStream: the handlers of the EventSource.                        *)
(***************************************************************************)
IterationOnText_Withheld(resp, log, text) == [resp |-> resp \o text, log |-> log]

\* iterationOnText: accumulate, then pass through to the caller's onText
IterationOnText(resp, log, text) ==
  [resp |-> resp \o text, log |-> Append(log, text)]

ParsedFrame_Always(f) == TRUE

\* JSON.parse of the frame's data succeeds
ParsedFrame(f) == f.json

HandleFrame_ErrorKeepsStream(f, st, resp, log) ==
  LET same == [st |-> st, resp |-> resp, log |-> log, errs |-> <<>>, done |-> FALSE] IN
  IF f.ch = "message" THEN
    IF ~f.json THEN same
    ELSE LET t == IF f.hasText THEN IterationOnText(resp, log, f.text)
                  ELSE [resp |-> resp, log |-> log]
         IN [same EXCEPT !.resp = t.resp, !.log = t.log, !.done = f.done]
  ELSE IF f.ch = "llm-error" THEN
    [same EXCEPT !.errs = IF f.json THEN <<"provider_error">> ELSE <<"bad_error_frame">>]
  ELSE IF f.ch = "onerror" THEN
    [same EXCEPT !.errs = <<"transport">>, !.done = TRUE]
  ELSE IF f.ch = "tool" /\ f.json THEN
    [same EXCEPT !.st = OnToolUseEvent(st, f.ev)]
  ELSE same

\* what handling one frame does to the iteration: st the assembler, resp the
\* accumulated assistant text, log the caller's onText calls, errs the
\* caller's onError calls, done whether safeDone ran
HandleFrame(f, st, resp, log) ==
  LET same == [st |-> st, resp |-> resp, log |-> log, errs |-> <<>>, done |-> FALSE] IN
  IF f.ch = "message" THEN
    IF ~ParsedFrame(f) THEN same
    ELSE LET t == IF f.hasText THEN IterationOnText(resp, log, f.text)
                  ELSE [resp |-> resp, log |-> log]
         IN [same EXCEPT !.resp = t.resp, !.log = t.log, !.done = f.done]
  ELSE IF f.ch = "llm-error" THEN
    [same EXCEPT !.errs = IF ParsedFrame(f) THEN <<"provider_error">> ELSE <<"bad_error_frame">>,
                 !.done = TRUE]
  ELSE IF f.ch = "onerror" THEN
    [same EXCEPT !.errs = <<"transport">>, !.done = TRUE]
  ELSE IF f.ch = "tool" /\ ParsedFrame(f) THEN
    [same EXCEPT !.st = OnToolUseEvent(st, f.ev)]
  ELSE same

\* opts.onToolDisplay as sendMessage passes it: what one tool event adds to pending
ToolDisplay(name) == <<"\n\n", "Calling ", name, "...", "\n\n">>

ToolDisplays(ev) ==
  IF ev.type = "tool_use_start" THEN ToolDisplay(ev.name)
  ELSE IF ev.type = "response_completed"
  THEN Flatten([n \in 1..Len(ev.output) |->
         IF ev.output[n].type = "function_call" THEN ToolDisplay(ev.output[n].name)
         ELSE <<>>])
  ELSE <<>>

(***************************************************************************)
(* openToolAwareChatStream.  Each action is one turn of the event loop:    *)
(* from the settling of what the run awaits to its next await.             *)
(***************************************************************************)
asmSt ==
  [atc |-> activeToolCalls, has |-> hasToolCalls, pd |-> pendingDeltas,
   fa |-> finalArgumentsByIndex]

SetAsm(st, resp) ==
  /\ activeToolCalls' = st.atc
  /\ hasToolCalls' = st.has
  /\ pendingDeltas' = st.pd
  /\ finalArgumentsByIndex' = st.fa
  /\ fullAssistantResponse' = resp

LoopContinues_OffByOne(it) == it <= maxIterations

\* while (shouldContinue && iteration < maxIterations), shouldContinue being true
LoopContinues(it) == it < maxIterations

\* the ways the loop is left: "normal" (no tool calls, break), "no-completed-calls"
\* (shouldContinue = false), "loop-break" (break), "while-guard" (the loop
\* condition is false at the ceiling), "thrown" (the catch block)
ExitPaths == {"normal", "no-completed-calls", "loop-break", "while-guard", "thrown"}

\* what the run logs on its way out of the loop
PathLog(path) ==
  IF path \in {"no-completed-calls", "loop-break"} THEN <<path>> ELSE <<>>

\* if (iteration >= maxIterations) after the loop; skipped when the catch block runs
MaxIterationsLog(path, it) ==
  IF path # "thrown" /\ it >= maxIterations THEN <<"max-iterations">> ELSE <<>>

FinallyRuns_OnlyOnSuccess(path) == path # "thrown"

\* opts.onDone is called in the finally block, whatever the path
FinallyRuns(path) == TRUE

RunRejects_NoCatch(path) == path = "thrown"

\* the catch block swallows what the loop throws; the promise resolves
RunRejects(path) == FALSE

UserText == <<"h", "i">>

RecordEntry(exchange, player, response) ==
  [exchange |-> exchange, player_entry |-> player, game_response |-> response]

\* the onDone of sendMessage: recordInteraction with the trimmed actualContent,
\* actualContent being the concatenation of the deltas given to onText
CallerOnDone(log, texts) ==
  Append(log, RecordEntry(1, UserText, Trim(Flatten(texts))))

\* sendMessage after "await openChatStreamWithToolCalling": the closer is
\* stored only if stop.value is not null
StopAfterReturn(s, closer) == IF s # "null" THEN closer ELSE s

EsAfterSafeDone_LeftOpen(open) == open

\* safeDone: opts.onDone(), then es.close() in its finally block
EsAfterSafeDone(open) == FALSE

\* the loop is left by path: the finally block, then the return to sendMessage
Exit(path) ==
  /\ pc' = "done"
  /\ esOpen' = EsAfterSafeDone(esOpen)
  /\ onDoneCount' = IF FinallyRuns(path) THEN onDoneCount + 1 ELSE onDoneCount
  /\ recordLog' = IF FinallyRuns(path) THEN CallerOnDone(recordLog, onTextLog')
                  ELSE recordLog
  /\ stop' = StopAfterReturn(IF FinallyRuns(path) THEN "null" ELSE stop, "close")
  /\ runRejected' = RunRejects(path)
  /\ exitPath' = path
  /\ warnLog' = warnLog \o PathLog(path) \o MaxIterationsLog(path, iteration)
  /\ UNCHANGED <<iteration, pos, streamsOpened, lastSent>>

\* the reactive assistant placeholder is the second message of the payload as
\* long as the message objects of sendMessage are the ones the payload holds:
\* always for vendor A (the spread keeps the objects), until the first copy
\* into input for vendor B
HoldsPlaceholder(p) == p.provider = "anthropic" \/ ~p.hasInput

Deref(p, content) ==
  IF HoldsPlaceholder(p) THEN [p EXCEPT !.messages[2].content = content] ELSE p

\* JSON.stringify(payload) in openChatStream reads the placeholder as it is then
Serialize(p, content) == [messages |-> Deref(p, content).messages, input |-> p.input]

\* currentPayload.messages.map(m => ({role, content})) copies the content (vendor B)
Snapshot(p, content) == IF p.provider = "anthropic" THEN p ELSE Deref(p, content)

IterEntry(text, calls, results) ==
  [it |-> iteration, text |-> text, calls |-> calls, results |-> results]

\* top of the loop body up to the await of the stream
BeginIteration ==
  /\ pc' = "opening"
  /\ iteration' = iteration + 1
  /\ pos' = 0
  /\ esOpen' = FALSE
  /\ streamsOpened' = streamsOpened + 1
  /\ lastSent' = Serialize(payload', assistantContent)
  /\ SetAsm(AsmInit, <<>>)
  /\ UNCHANGED <<onDoneCount, warnLog, exitVars>>

\* after "await streamPromise" up to the call of executeMcpTools
AfterStream(st, resp) ==
  LET completed == CompletedToolCalls(st.atc)
      newToolCalls == NewToolCalls(completed, failedToolCalls)
  IN /\ SetAsm(st, resp)
     /\ UNCHANGED <<failedToolCalls, payload, turnLog, client, gwRaised, iterLog>>
     /\ IF ~st.has THEN
          Exit("normal") /\ UNCHANGED <<gwCalls, gwResults>>
        ELSE IF completed = <<>> THEN
          Exit("no-completed-calls") /\ UNCHANGED <<gwCalls, gwResults>>
        ELSE IF newToolCalls = <<>> THEN
          Exit("loop-break") /\ UNCHANGED <<gwCalls, gwResults>>
        ELSE
          /\ pc' = "connecting"
          /\ esOpen' = EsAfterSafeDone(esOpen)
          /\ gwCalls' = newToolCalls
          /\ gwResults' = <<>>
          /\ UNCHANGED <<iteration, pos, streamsOpened, onDoneCount, warnLog, exitVars,
                         lastSent>>

\* after "await executeMcpTools" to the next await or the end of the run
AfterExecute(results) ==
  LET fm == formatToolMessages(fullAssistantResponse, gwCalls, results, payload.provider) IN
  /\ gwResults' = results
  /\ failedToolCalls' = TrackFailed(failedToolCalls, gwCalls, results)
  /\ UNCHANGED <<gwCalls, gwRaised>>
  /\ IF FormatThrows(gwCalls, results, payload.provider) THEN
       /\ Exit("thrown")
       /\ UNCHANGED <<payload, turnLog, activeToolCalls, hasToolCalls, pendingDeltas,
                      finalArgumentsByIndex, fullAssistantResponse, iterLog>>
     ELSE
       /\ payload' = UpdatePayload(Snapshot(payload, assistantContent),
                                   fullAssistantResponse, fm)
       /\ turnLog' = Append(turnLog, iteration)
       /\ iterLog' = Append(iterLog, IterEntry(fullAssistantResponse, gwCalls, results))
       /\ IF LoopContinues(iteration) THEN BeginIteration
          ELSE /\ Exit("while-guard")
               /\ UNCHANGED <<activeToolCalls, hasToolCalls, pendingDeltas,
                              finalArgumentsByIndex, fullAssistantResponse>>

\* openToolAwareChatStream is called: first iteration up to the await
Start ==
  /\ pc = "idle"
  /\ UNCHANGED <<plan, failedToolCalls, payload, client, gwCalls, gwResults, gwRaised,
                 onTextLog, onErrorLog, rxText, errIter, execLog, turnLog, evLog, iterLog,
                 pendingUi, uiVars, sideVars>>
  /\ BeginIteration

\* the session request of openChatStream settles
OpenStream ==
  /\ pc = "opening"
  /\ UNCHANGED <<plan, onTextLog, rxText, execLog, evLog, pendingUi, uiVars, sideVars>>
  /\ IF Cur.openOk THEN
       /\ pc' = "streaming"
       /\ esOpen' = TRUE
       /\ UNCHANGED <<iteration, pos, streamsOpened, onDoneCount, warnLog, activeToolCalls,
                      hasToolCalls, pendingDeltas, finalArgumentsByIndex,
                      fullAssistantResponse, failedToolCalls, payload, turnLog, client,
                      gwCalls, gwResults, gwRaised, onErrorLog, errIter, exitVars,
                      lastSent, iterLog>>
     ELSE
       /\ onErrorLog' = Append(onErrorLog, "open_failed")
       /\ errIter' = errIter \cup {iteration}
       /\ AfterStream(asmSt, fullAssistantResponse)

\* the EventSource delivers the next frame of the stream
StreamFrame ==
  /\ pc = "streaming"
  /\ esOpen
  /\ pos < Len(Cur.frames)
  /\ LET f == Cur.frames[pos + 1]
         h == HandleFrame(f, asmSt, fullAssistantResponse, onTextLog)
     IN /\ onTextLog' = h.log
        /\ pendingUi' = pendingUi \o Flatten(SubSeq(h.log, Len(onTextLog) + 1, Len(h.log)))
                         \o (IF f.ch = "tool" /\ ParsedFrame(f) THEN ToolDisplays(f.ev) ELSE <<>>)
        /\ onErrorLog' = onErrorLog \o h.errs
        /\ errIter' = IF h.errs # <<>> THEN errIter \cup {iteration} ELSE errIter
        /\ rxText' = IF f.ch = "message" /\ f.json /\ f.hasText
                     THEN Append(rxText, f.text) ELSE rxText
        /\ UNCHANGED <<plan, execLog, evLog, uiVars, sideVars>>
        /\ IF h.done THEN
             /\ AfterStream(h.st, h.resp)
           ELSE
             /\ pos' = pos + 1
             /\ SetAsm(h.st, h.resp)
             /\ UNCHANGED <<pc, iteration, esOpen, streamsOpened, onDoneCount, warnLog,
                            failedToolCalls, payload, turnLog, client, gwCalls, gwResults,
                            gwRaised, exitVars, lastSent, iterLog>>

ExecEntry(n, outcome, result) ==
  [it |-> iteration, n |-> n, id |-> gwCalls[n].id, sig |-> Signature(gwCalls[n]),
   outcome |-> outcome, content |-> result.content]

\* getClient settles inside executeMcpTools
Connect ==
  /\ pc = "connecting"
  /\ UNCHANGED <<plan, onTextLog, onErrorLog, rxText, errIter, execLog, evLog, pendingUi,
                 uiVars, sideVars>>
  /\ IF client \/ Cur.connectOk THEN
       /\ client' = TRUE
       /\ IF GwFinished(gwCalls, GwStart(gwCalls))
          THEN AfterExecute(GwStart(gwCalls))
          ELSE /\ pc' = "calling"
               /\ gwResults' = GwStart(gwCalls)
               /\ UNCHANGED <<iteration, pos, esOpen, streamsOpened, onDoneCount, warnLog,
                              activeToolCalls, hasToolCalls, pendingDeltas,
                              finalArgumentsByIndex, fullAssistantResponse,
                              failedToolCalls, payload, turnLog, gwCalls, gwRaised,
                              exitVars, lastSent, iterLog>>
     ELSE
       /\ gwRaised' = TRUE
       /\ Exit("thrown")
       /\ UNCHANGED <<client, activeToolCalls, hasToolCalls, pendingDeltas,
                      finalArgumentsByIndex, fullAssistantResponse, failedToolCalls,
                      payload, turnLog, gwCalls, gwResults, iterLog>>

\* the pending client.callTool settles
CallTool ==
  /\ pc = "calling"
  /\ LET n == Len(gwResults) + 1
         outcome == OutcomeAt(n)
         results == GwStep(gwCalls, gwResults, outcome)
     IN /\ execLog' = Append(execLog, ExecEntry(n, outcome, results[n]))
        /\ UNCHANGED <<plan, client, onTextLog, onErrorLog, rxText, errIter, evLog,
                       pendingUi, uiVars, sideVars>>
        /\ IF GwFinished(gwCalls, results)
           THEN AfterExecute(results)
           ELSE /\ gwResults' = results
                /\ UNCHANGED <<pc, iteration, pos, esOpen, streamsOpened, onDoneCount,
                               warnLog, activeToolCalls, hasToolCalls, pendingDeltas,
                               finalArgumentsByIndex, fullAssistantResponse,
                               failedToolCalls, payload, turnLog, gwCalls, gwRaised,
                               exitVars, lastSent, iterLog>>

(***************************************************************************)
(* The run as sendMessage starts it.                                       *)
(***************************************************************************)
Providers == {"anthropic", "openai"}

InitialMessages ==
  <<Message("user", <<"h", "i">>), Message("assistant", <<>>)>>

\* useChat.ts: no sendMessage has been called
PlainIdle ==
  [pc |-> "idle", pending |-> <<>>, raf |-> FALSE, content |-> <<>>, delivered |-> <<>>,
   recorded |-> <<>>, error |-> "none"]
\* no stream has been requested
StrmIdle ==
  [pc |-> "idle", provider |-> "none", wire |-> <<>>, upstreamRead |-> 0,
   upstreamLast |-> "none", next |-> 1,
   esOpen |-> FALSE, onTextCalls |-> 0, onErrorCalls |-> 0, onDoneCalls |-> 0,
   closeCalls |-> 0]
\* the server has started: __CHAT_STORE__ is an empty Map, no timer is set
ChatStoreIdle ==
  [pc |-> "idle", clock |-> 0, nextSid |-> 1, store |-> {}, timers |-> {}, created |-> <<>>,
   requests |-> <<>>, upstreamCalls |-> <<>>]
\* a call of rpc that has not started
RpcCallIdle == [pc |-> "idle", sid |-> 0, awaiting |-> 0, sent |-> <<>>, newSid |-> 0]

\* the module has not been loaded: inMemorySid and initializing are null
RpcIdle ==
  [pc |-> "idle", inMemorySid |-> 0, storedSid |-> 0, initializing |-> 0, promises |-> <<>>,
   inFlight |-> {}, calls |-> [c \in 1..MaxRpcCalls |-> RpcCallIdle],
   serverValid |-> {}, serverNext |-> 1, expiries |-> 0]
\* a call of withClient that has not started
WcCallIdle ==
  [pc |-> "idle", cl |-> 0, awaiting |-> 0, stale |-> FALSE, runs |-> <<>>, errors |-> <<>>,
   outcome |-> "none"]

\* useMcpClient.ts has been loaded: client and connecting are null
McpConnIdle ==
  [pc |-> "idle", client |-> 0, connecting |-> 0, promises |-> <<>>, nextClient |-> 1,
   calls |-> [c \in 1..MaxWithClientCalls |-> WcCallIdle]]
\* filterToolsByModes has not been called
ToolFilterIdle == [pc |-> "idle", tools |-> <<>>, activeModes |-> {}, result |-> <<>>]
\* useStreamPagination(): the refs as constructed; passed, returned and ended
\* record the calls made since then
PagerIdle ==
  [mode |-> "streaming", buffer |-> <<>>, renderedContent |-> <<>>, pageHeight |-> 0,
   currentHeight |-> 0, passed |-> <<>>, returned |-> <<>>, released |-> 0,
   ended |-> FALSE]

\* handleSamplingRequest has not been called
NoParams == [messages |-> <<>>, hint |-> "", systemPrompt |-> "", maxTokens |-> 0]

SamplingIdle ==
  [pc |-> "idle", params |-> NoParams, payload |-> [providerMode |-> <<>>], esOpen |-> FALSE,
   fullResponse |-> <<>>, delivered |-> 0]

InitCommon ==
  /\ iteration = 0
  /\ pos = 0
  /\ esOpen = FALSE
  /\ activeToolCalls = <<>>
  /\ hasToolCalls = FALSE
  /\ pendingDeltas = NoDeltas
  /\ finalArgumentsByIndex = NoDeltas
  /\ fullAssistantResponse = <<>>
  /\ failedToolCalls = {}
  /\ gwResults = <<>>
  /\ gwRaised = FALSE
  /\ onTextLog = <<>>
  /\ onErrorLog = <<>>
  /\ onDoneCount = 0
  /\ warnLog = <<>>
  /\ streamsOpened = 0
  /\ rxText = <<>>
  /\ errIter = {}
  /\ execLog = <<>>
  /\ turnLog = <<>>
  /\ evLog = <<>>
  /\ stop = "null"
  /\ assistantContent = <<>>
  /\ pendingUi = <<>>
  /\ recordLog = <<>>
  /\ otherRun = "none"
  /\ cancelled = FALSE
  /\ runRejected = FALSE
  /\ exitPath = "none"
  /\ lastSent = [messages |-> <<>>, input |-> <<>>]
  /\ iterLog = <<>>
  /\ sampling = SamplingIdle
  /\ plain = PlainIdle
  /\ strm = StrmIdle
  /\ chatStore = ChatStoreIdle
  /\ rpcSt = RpcIdle
  /\ mcpConn = McpConnIdle
  /\ toolFilter = ToolFilterIdle
  /\ pager = PagerIdle

Init ==
  /\ InitCommon
  /\ pc = "idle"
  /\ \E provider \in Providers :
       /\ payload = [provider |-> provider, messages |-> InitialMessages,
                     input |-> <<>>, hasInput |-> FALSE]
       /\ plan \in [1..PlanLen -> ScriptNames(provider)]
  /\ client = FALSE
  /\ gwCalls = <<>>

Next == Start \/ OpenStream \/ StreamFrame \/ Connect \/ CallTool

Spec == Init /\ [][Next]_vars

----------------------------------------------------------------------------
\* useChat around a run: cancel, a second sendMessage, the animation frame.
\* The run of the first sendMessage is the one of Spec.

loopVars == <<plan, pc, iteration, pos, activeToolCalls, hasToolCalls,
              pendingDeltas, finalArgumentsByIndex, fullAssistantResponse,
              failedToolCalls, payload, client, gwCalls, gwResults, gwRaised,
              onTextLog, onErrorLog, onDoneCount, warnLog, streamsOpened, rxText,
              errIter, execLog, turnLog, evLog, runRejected, exitPath, lastSent,
              iterLog>>

Contents == {<<>>, <<" ">>, <<"g", "o">>}

\* the await of openChatStreamWithToolCalling in sendMessage has not returned
RunInProgress == pc \in {"opening", "streaming", "connecting", "calling"}

\* stop.value?.(): the closer, when there is one, closes the EventSource
EsAfterCancel(s, open) == IF s = "null" THEN open ELSE FALSE

\* the guard of sendMessage: blank content or a stored closer
SendRejected(content, s) == Trim(content) = <<>> \/ s # "null"

\* cancel(), called while the run of the first sendMessage is in progress
Cancel ==
  /\ RunInProgress
  /\ ~cancelled
  /\ cancelled' = TRUE
  /\ esOpen' = EsAfterCancel(stop, esOpen)
  /\ stop' = "null"
  /\ UNCHANGED <<loopVars, sideVars, assistantContent, pendingUi, recordLog, otherRun>>

\* a second sendMessage(content), up to its return or its first await
SendMessage ==
  /\ RunInProgress
  /\ otherRun = "none"
  /\ \E content \in Contents :
       otherRun' = IF SendRejected(content, stop) THEN "rejected" ELSE "preparing"
  /\ UNCHANGED <<loopVars, sideVars, esOpen, stop, assistantContent, pendingUi, recordLog, cancelled>>

\* the second sendMessage reaches openChatStreamWithToolCalling: its loop starts
OtherRunStart ==
  /\ otherRun = "preparing"
  /\ otherRun' = "running"
  /\ UNCHANGED <<loopVars, sideVars, esOpen, stop, assistantContent, pendingUi, recordLog, cancelled>>

\* the loop of the second sendMessage ends: its onDone, then its return
OtherRunEnd ==
  /\ otherRun = "running"
  /\ otherRun' = "done"
  /\ recordLog' = Append(recordLog, RecordEntry(2, <<"g", "o">>, <<>>))
  /\ stop' = StopAfterReturn("null", "close")
  /\ UNCHANGED <<loopVars, sideVars, esOpen, assistantContent, pendingUi, cancelled>>

\* the animation frame callback of the first sendMessage
Flush ==
  /\ pendingUi # <<>>
  /\ assistantContent' = assistantContent \o pendingUi
  /\ pendingUi' = <<>>
  /\ UNCHANGED <<loopVars, sideVars, esOpen, stop, recordLog, otherRun, cancelled>>

ChatScripts(provider) == IF provider = "anthropic" THEN {"text", "call"} ELSE {"bText", "bCall"}

InitChat ==
  /\ Init
  /\ \A n \in 1..PlanLen : plan[n] \in ChatScripts(payload.provider)
  /\ plan[PlanLen] \in {"text", "bText"}

NextChat ==
  Start \/ OpenStream \/ StreamFrame \/ Connect \/ CallTool
    \/ Cancel \/ SendMessage \/ OtherRunStart \/ OtherRunEnd \/ Flush

SpecChat == InitChat /\ [][NextChat]_vars

(***************************************************************************)
(* useSampling: handleSamplingRequest.                                     *)
(***************************************************************************)
\* the variables of sendMessage and its run
chatVars == <<loopVars, esOpen, stop, assistantContent, pendingUi, recordLog, otherRun,
              cancelled>>

ServerMcpMode == <<"anthropic", "-server-mcp">>
ClientMcpMode == <<"anthropic", "-client-mcp">>

\* providerMode.endsWith('-client-mcp')
isClientMcpMode(providerMode) ==
  Len(providerMode) > 0 /\ providerMode[Len(providerMode)] = "-client-mcp"

DefaultSamplingModel == "claude-sonnet-4-5-20250929"

\* a message of the request: content is a text or something else
SamplingMsgs ==
  {[role |-> "user", type |-> "text", text |-> "q"],
   [role |-> "assistant", type |-> "text", text |-> "r"],
   [role |-> "user", type |-> "image", text |-> ""]}

SamplingParams ==
  {[messages |-> m, hint |-> h, systemPrompt |-> p, maxTokens |-> 4096] :
     m \in {<<x>> : x \in SamplingMsgs} \cup {<<x, y>> : x \in SamplingMsgs, y \in SamplingMsgs},
     h \in {"", "gpt-5"}, p \in {"", "be brief"}}

ApiMessage(msg) ==
  [role |-> msg.role, content |-> IF msg.type = "text" THEN msg.text ELSE ""]

\* the payload handleSamplingRequest posts to /api/chat/session
SamplingPayload(params) ==
  [provider |-> "anthropic",
   providerMode |-> ClientMcpMode,
   model |-> IF params.hint # "" THEN params.hint ELSE DefaultSamplingModel,
   system |-> IF params.systemPrompt # "" THEN params.systemPrompt
              ELSE "You are a helpful assistant.",
   messages |-> [n \in 1..Len(params.messages) |-> ApiMessage(params.messages[n])],
   maxTokens |-> params.maxTokens]

SamplingFrames == {TextFrame(<<"s">>), DoneFrame, NoiseFrame, LlmErrorFrame, TransportError}

\* an MCP tool asks for a completion: up to the await of the session request
SamplingRequest ==
  /\ sampling.pc = "idle"
  /\ \E params \in SamplingParams :
       sampling' = [sampling EXCEPT !.pc = "session", !.params = params,
                                    !.payload = SamplingPayload(params)]
  /\ UNCHANGED <<chatVars, plain, strm, chatStore, rpcSt, mcpConn, toolFilter, pager>>

\* the session request settles; on success the EventSource is opened
SamplingSession ==
  /\ sampling.pc = "session"
  /\ \E ok \in BOOLEAN :
       sampling' = IF ok THEN [sampling EXCEPT !.pc = "streaming", !.esOpen = TRUE]
                   ELSE [sampling EXCEPT !.pc = "rejected"]
  /\ UNCHANGED <<chatVars, plain, strm, chatStore, rpcSt, mcpConn, toolFilter, pager>>

\* the EventSource of the sampling request delivers a frame
SamplingFrame ==
  /\ sampling.pc = "streaming"
  /\ sampling.esOpen
  /\ sampling.delivered < MaxSamplingFrames
  /\ \E f \in SamplingFrames :
       sampling' =
         LET d == [sampling EXCEPT !.delivered = @ + 1] IN
         IF f.ch = "message" THEN
           IF ~f.json THEN d
           ELSE LET t == IF f.hasText THEN [d EXCEPT !.fullResponse = @ \o f.text] ELSE d
                IN IF f.done THEN [t EXCEPT !.pc = "resolved", !.esOpen = FALSE] ELSE t
         ELSE [d EXCEPT !.pc = "rejected", !.esOpen = FALSE]
  /\ UNCHANGED <<chatVars, plain, strm, chatStore, rpcSt, mcpConn, toolFilter, pager>>

InitIdle ==
  /\ InitCommon
  /\ pc = "idle"
  /\ payload = [provider |-> "anthropic", messages |-> InitialMessages,
                input |-> <<>>, hasInput |-> FALSE]
  /\ plan = <<>>
  /\ client = FALSE
  /\ gwCalls = <<>>

InitSampling == InitIdle

NextSampling == SamplingRequest \/ SamplingSession \/ SamplingFrame

SpecSampling == InitSampling /\ [][NextSampling]_vars

(***************************************************************************)
(* Properties of the run.                                                  *)
(***************************************************************************)
Range(s) == {s[n] : n \in 1..Len(s)}

IsFunctionCall(item) == "type" \in DOMAIN item /\ item.type = "function_call"
IsFunctionCallOutput(item) == "type" \in DOMAIN item /\ item.type = "function_call_output"
IsRoleItem(item) == "role" \in DOMAIN item

\* vendor A: iteration i's turns are messages 2i+1 and 2i+2, after the two initial ones
TurnsPresentA(conv, i) ==
  /\ Len(conv) >= 2 * i + 2
  /\ conv[2 * i + 1].role = "assistant"
  /\ \E b \in Range(conv[2 * i + 1].content) :
       b.type = "tool_use" /\ b.id[2] = ToString(i)
  /\ conv[2 * i + 2].role = "user"
  /\ \E r \in Range(conv[2 * i + 2].content) :
       r.type = "tool_result" /\ r.tool_use_id[2] = ToString(i)

\* vendor B: an assistant message, then the function_call records of iteration
\* i, then their outputs
TurnsPresentB(conv, i) ==
  \E j \in 2..Len(conv) : \E k \in 2..Len(conv) :
    /\ j < k
    /\ IsFunctionCall(conv[j]) /\ conv[j].call_id[2] = ToString(i)
    /\ IsFunctionCallOutput(conv[k]) /\ conv[k].call_id = conv[j].call_id
    /\ \E a \in 1..(j - 1) :
         /\ IsRoleItem(conv[a]) /\ conv[a].role = "assistant"
         /\ \A b \in (a + 1)..(j - 1) : IsFunctionCall(conv[b])

TurnsPresent(i) ==
  IF payload.provider = "anthropic" THEN TurnsPresentA(payload.messages, i)
  ELSE TurnsPresentB(payload.input, i)

\* C1: a run opens at most 20 streams; once all 20 iterations have executed
\* tool calls the run is over (truncation) with no 21st stream opened, and
\* the conversation holds the tool-call turn and the tool-result turn of each
\* of the 20 iterations.
C1_IterationCeiling ==
  /\ streamsOpened <= maxIterations
  /\ iteration <= maxIterations
  /\ Len(turnLog) = maxIterations =>
       /\ pc = "done"
       /\ streamsOpened = maxIterations
       /\ "max-iterations" \in Range(warnLog)
       /\ \A i \in 1..maxIterations : TurnsPresent(i)

C1_Witness ==
  /\ pc = "done"
  /\ Len(turnLog) = maxIterations
  /\ streamsOpened = maxIterations

ErrorEntries == {e \in Range(execLog) : StartsWithError(e.content)}

NoRetryInLaterIteration ==
  \A e1 \in ErrorEntries :
    /\ \A e2 \in Range(execLog) : e2.it > e1.it => e2.sig # e1.sig
    /\ (pc \in {"connecting", "calling"} /\ e1.it < iteration) =>
         \A n \in 1..Len(gwCalls) : Signature(gwCalls[n]) # e1.sig

\* C2: within a run the failure set only grows, and a signature that has
\* produced an error-marked result is not handed to the gateway in any
\* later iteration.
C2_FailureSetMonotonic ==
  [][failedToolCalls \subseteq failedToolCalls' /\ NoRetryInLaterIteration']_vars

\* a later iteration assembled a call with a failed signature next to a new one
C2_Witness ==
  /\ pc = "calling"
  /\ \E tc \in Range(CompletedToolCalls(activeToolCalls)) :
       /\ Signature(tc) \in failedToolCalls
       /\ \E e \in ErrorEntries : e.sig = Signature(tc) /\ e.it < iteration
  /\ Len(gwCalls) < Len(CompletedToolCalls(activeToolCalls))

\* signatures with an error-marked result in an earlier iteration of the run
PriorFailed == {e.sig : e \in {x \in ErrorEntries : x.it < iteration}}

AllAssembledFailed ==
  /\ hasToolCalls
  /\ CompletedToolCalls(activeToolCalls) # <<>>
  /\ \A tc \in Range(CompletedToolCalls(activeToolCalls)) : Signature(tc) \in PriorFailed

\* once a stream has ended with only calls that failed before, the run is over:
\* nothing of that iteration was executed or appended, no further stream opened
LoopBreakEndsRun ==
  (pc \notin {"idle", "opening", "streaming"} /\ AllAssembledFailed)
  => /\ pc = "done"
     /\ "loop-break" \in Range(warnLog)
     /\ \A e \in Range(execLog) : e.it # iteration
     /\ iteration \notin Range(turnLog)
     /\ streamsOpened = iteration

ThreeAttempts ==
  \E a \in 1..Len(execLog) : \E b \in 1..Len(execLog) : \E c \in 1..Len(execLog) :
    /\ a < b /\ b < c
    /\ StartsWithError(execLog[a].content)
    /\ execLog[b].sig = execLog[a].sig
    /\ execLog[c].sig = execLog[a].sig

\* C3 as stated: a stream whose calls have all failed before ends the run
\* without executing, appending or reopening, and a call that failed with a
\* given signature is never attempted a third time.
C3_Original == LoopBreakEndsRun /\ ~ThreeAttempts

\* C3 as amended: a stream whose calls have all failed before ends the run
\* without executing, appending or reopening, and a call that failed with a
\* given signature is never attempted in a later iteration.
C3_LoopBreak == LoopBreakEndsRun /\ NoRetryInLaterIteration

C3_Witness ==
  /\ pc = "done"
  /\ AllAssembledFailed
  /\ "loop-break" \in Range(warnLog)
  /\ iteration >= 2

ToolUseIds(content) ==
  LET B == SelectSeq(content, LAMBDA b : b.type = "tool_use") IN
  [n \in 1..Len(B) |-> B[n].id]
ToolResultIds(content) ==
  LET B == SelectSeq(content, LAMBDA b : b.type = "tool_result") IN
  [n \in 1..Len(B) |-> B[n].tool_use_id]

\* vendor A: the result message after each assistant tool-call message
ResultsMatchA(conv) ==
  \A j \in 3..Len(conv) :
    conv[j].role = "assistant" =>
      /\ j + 1 <= Len(conv)
      /\ conv[j + 1].role = "user"
      /\ ToolUseIds(conv[j].content) # <<>>
      /\ ToolResultIds(conv[j + 1].content) = ToolUseIds(conv[j].content)
      /\ Len(conv[j + 1].content) = Len(ToolUseIds(conv[j].content))

\* the items of conv after position j up to the next message
RECURSIVE SegmentEnd(_, _)
SegmentEnd(conv, j) ==
  IF j + 1 <= Len(conv) /\ ~IsRoleItem(conv[j + 1]) THEN SegmentEnd(conv, j + 1) ELSE j

FunctionCallIds(seg) ==
  LET B == SelectSeq(seg, IsFunctionCall) IN [n \in 1..Len(B) |-> B[n].call_id]
OutputIds(seg) ==
  LET B == SelectSeq(seg, IsFunctionCallOutput) IN [n \in 1..Len(B) |-> B[n].call_id]

\* vendor B: behind each assistant message the function_call records, then
\* exactly their outputs
ResultsMatchB(conv) ==
  \A j \in 3..Len(conv) :
    IsRoleItem(conv[j]) =>
      LET seg == SubSeq(conv, j + 1, SegmentEnd(conv, j))
          calls == FunctionCallIds(seg)
          outs == OutputIds(seg)
      IN /\ calls # <<>>
         /\ outs = calls
         /\ Len(seg) = 2 * Len(calls)
         /\ \A n \in 1..Len(calls) : IsFunctionCall(seg[n])

\* C4: every appended tool-result turn holds exactly one result per call of
\* the assistant tool-call turn appended right before it, same ids, same
\* order, also when some assembled calls were filtered out.
C4_ResultsMatchCalls ==
  IF payload.provider = "anthropic" THEN ResultsMatchA(payload.messages)
  ELSE ResultsMatchB(payload.input)

\* turns were appended in an iteration that filtered a previously failed call
C4_Witness ==
  /\ payload.provider = "anthropic"
  /\ Len(payload.messages) >= 6
  /\ ToolUseIds(payload.messages[5].content) = <<TId(2, 2)>>
  /\ failedToolCalls # {}

\* C5: when a stream cannot be opened, dies mid-flight or delivers an error
\* frame, the error is surfaced and the run stops at that iteration: no call
\* of that stream is executed, no turn appended, no further stream opened.
C5_ErrorStopsRun ==
  \A i \in errIter :
    /\ onErrorLog # <<>>
    /\ iteration = i
    /\ pc \in {"done"}
    /\ \A e \in Range(execLog) : e.it # i
    /\ i \notin Range(turnLog)

FailedOutcome(o) == o \in {"fail", "failE", "throw"}

\* C7: every result that stands for a failed call begins with Error, and
\* after each execution step the failure set holds the signatures of exactly
\* the executed calls that failed.
C7_FailuresMarked ==
  /\ \A e \in Range(execLog) : FailedOutcome(e.outcome) => StartsWithError(e.content)
  /\ pc # "calling" =>
       failedToolCalls = {e.sig : e \in {x \in Range(execLog) : FailedOutcome(x.outcome)}}

\* C10: every text delta received on a stream has been handed to the
\* caller's text callback by the end of the handling of its frame, once and
\* in delivery order, across all iterations of the run.
C10_TextPassThrough == onTextLog = rxText

\* text was delivered in two iterations with a tool execution in between
C10_Witness ==
  /\ iteration >= 2
  /\ execLog # <<>>
  /\ Len(onTextLog) >= 3
  /\ onTextLog[Len(onTextLog)] = <<"a">>

\* C11: at most one run of a useChat is active: when a second sendMessage has
\* started its run (it was not rejected), the earlier run is over, its stream
\* closed and no event of it is routed any more.
C11_SingleActiveRun ==
  otherRun = "running" => (~RunInProgress /\ ~esOpen)

\* C12: cancel during a run closes the active stream, and after it the run
\* executes no tool, appends no turn and opens no stream.
C12_CancelStopsRun ==
  [][/\ cancelled' => ~esOpen'
     /\ cancelled =>
          /\ streamsOpened' = streamsOpened
          /\ Len(execLog') = Len(execLog)
          /\ Len(turnLog') = Len(turnLog)]_vars

RecordsOf(exchange) == SelectSeq(recordLog, LAMBDA r : r.exchange = exchange)

\* C13: recordInteraction is called exactly once for the exchange and only
\* when the loop has been left: no call while the run is before or inside
\* the loop (between two iterations included), exactly one once it is done.
C13_RecordedOnceAfterLoop ==
  /\ (pc = "idle" \/ RunInProgress) => RecordsOf(1) = <<>>
  /\ pc = "done" =>
       /\ Len(RecordsOf(1)) = 1
       /\ RecordsOf(1)[1].player_entry = UserText
       /\ onDoneCount = 1

\* a run of several iterations, one of whose streams surfaced an error, has
\* ended and left its one record
C13_Witness ==
  /\ pc = "done"
  /\ iteration >= 2
  /\ errIter # {}
  /\ Len(turnLog) >= 1
  /\ Len(RecordsOf(1)) = 1

(***************************************************************************)
(* Termination.  Rank is a natural number; a run whose every step lowers   *)
(* it, and which is never left without a callback to run before it is      *)
(* done, is done after at most Rank steps once every stream ends and every *)
(* tool call settles (which the scripts of the plan all do).               *)
(***************************************************************************)
AllScriptNames == ScriptNamesA \cup ScriptNamesB

MaxScriptFrames ==
  LET lens == {Len(Script(nm, it).frames) : nm \in AllScriptNames, it \in 1..maxIterations}
  IN CHOOSE m \in lens : \A k \in lens : k <= m

\* steps one iteration can take: the open, its frames, the connect, its calls
IterationBudget == 2 * MaxScriptFrames + 4

Rank ==
  IF pc = "done" THEN 0
  ELSE IF pc = "idle" THEN (maxIterations + 1) * IterationBudget
  ELSE (maxIterations - iteration) * IterationBudget
       + (IF pc = "opening" THEN 2 * MaxScriptFrames + 3
          ELSE IF pc = "streaming" THEN 2 * MaxScriptFrames + 2 - pos
          ELSE IF pc = "connecting" THEN MaxScriptFrames + 2
          ELSE MaxScriptFrames + 1 - Len(gwResults))

\* the callback the run waits for can run
CallbackReady ==
  /\ pc = "streaming" => esOpen /\ pos < Len(Cur.frames)
  /\ pc = "calling" => Len(gwResults) < Len(gwCalls)
  /\ RunInProgress => iteration \in 1..maxIterations

\* C14: every run terminates (each step lowers Rank and leaves a callback
\* ready unless the run is done), calls the caller's onDone exactly once,
\* at its end, and never rejects, whatever fails during streaming,
\* assembly, tool execution or formatting.
C14_RunTerminates ==
  [][/\ Rank' < Rank
     /\ Rank' >= 0
     /\ CallbackReady'
     /\ onDoneCount' <= 1
     /\ pc' = "done" <=> onDoneCount' = 1
     /\ ~runRejected']_vars

\* a run ended through the catch block because the gateway rejected
C14_Witness ==
  /\ pc = "done"
  /\ exitPath = "thrown"
  /\ gwRaised
  /\ onDoneCount = 1
  /\ ~runRejected

\* C17: the phases of a run are sequential: a stream is requested only when
\* the previous one is closed, its calls have all returned and its turns are
\* appended (one stream per iteration, the turns of all earlier iterations
\* present), and no tool executes while a stream of the run is open.
C17_PhasesSequential ==
  [][/\ streamsOpened' = iteration'
     /\ streamsOpened' > streamsOpened =>
          /\ ~esOpen
          /\ streamsOpened' = streamsOpened + 1
          /\ Len(gwResults') = Len(gwCalls')
          /\ turnLog' = [k \in 1..streamsOpened |-> k]
          /\ Len(execLog') = Len(Flatten([k \in 1..Len(iterLog') |-> iterLog'[k].calls]))
     /\ pc' \in {"connecting", "calling"} => ~esOpen'
     /\ Len(execLog') > Len(execLog) => ~esOpen /\ pc = "calling"]_vars

\* the second stream of a run is open after two calls were executed
C17_Witness ==
  /\ pc = "streaming"
  /\ esOpen
  /\ iteration = 2
  /\ Len(execLog) = 2
  /\ pos >= 1

Blank(text) == \A n \in 1..Len(text) : text[n] = " "

ExecutedIds(it) ==
  LET E == SelectSeq(execLog, LAMBDA e : e.it = it) IN [n \in 1..Len(E) |-> E[n].id]

\* C18: for vendor A every tool iteration appends exactly two messages: an
\* assistant message holding one text block iff the iteration's text is not
\* blank, then one tool_use block (id, name, parsed arguments) per executed
\* call in call order; then a user message holding one tool_result block per
\* result in the same order, each tagged with the id of its call.
C18_VendorATurns ==
  payload.provider = "anthropic" =>
    /\ Len(payload.messages) = 2 + 2 * Len(iterLog)
    /\ \A k \in 1..Len(iterLog) :
         LET e == iterLog[k]
             a == payload.messages[2 * k + 1]
             u == payload.messages[2 * k + 2]
             off == IF Blank(e.text) THEN 0 ELSE 1
         IN /\ a.role = "assistant"
            /\ Len(a.content) = off + Len(e.calls)
            /\ off = 1 => a.content[1] = [type |-> "text", text |-> e.text]
            /\ [n \in 1..Len(e.calls) |-> e.calls[n].id] = ExecutedIds(e.it)
            /\ \A n \in 1..Len(e.calls) :
                 /\ JSONparse(e.calls[n].arguments).ok
                 /\ a.content[off + n] =
                      [type |-> "tool_use", id |-> e.calls[n].id, name |-> e.calls[n].name,
                       input |-> JSONparse(e.calls[n].arguments).v]
            /\ u.role = "user"
            /\ Len(u.content) = Len(e.calls)
            /\ Len(e.results) = Len(e.calls)
            /\ \A n \in 1..Len(e.calls) :
                 u.content[n] =
                   [type |-> "tool_result", tool_use_id |-> e.calls[n].id,
                    content |-> e.results[n].content]

\* one iteration appended two calls without text, a later one a call with text
C18_Witness ==
  /\ payload.provider = "anthropic"
  /\ \E k \in 1..Len(iterLog) : iterLog[k].text = <<>> /\ Len(iterLog[k].calls) = 2
  /\ \E k \in 1..Len(iterLog) : ~Blank(iterLog[k].text) /\ Len(iterLog[k].calls) = 1
  /\ Len(payload.messages) = 2 + 2 * Len(iterLog)

\* number of items vendor-B iterations 1..k appended to input
RECURSIVE AppendedB(_)
AppendedB(k) ==
  IF k = 0 THEN 0
  ELSE AppendedB(k - 1) + 1 + Len(iterLog[k].calls) + Len(iterLog[k].results)

\* C19: for vendor B every tool iteration appends to input, as siblings, the
\* assistant text message, one function_call record (id, call_id, name, raw
\* argument string) per executed call and one function_call_output record
\* (call_id, output) per result; every output has the call_id of exactly
\* one function_call before it and every function_call exactly one output.
C19_VendorBInput ==
  (payload.provider = "openai" /\ iterLog # <<>>) =>
    LET inp == payload.input IN
    /\ Len(inp) = 2 + AppendedB(Len(iterLog))
    /\ \A k \in 1..Len(iterLog) :
         LET e == iterLog[k]
             base == 2 + AppendedB(k - 1)
         IN /\ inp[base + 1] = [role |-> "assistant", content |-> e.text]
            /\ [n \in 1..Len(e.calls) |-> e.calls[n].id] = ExecutedIds(e.it)
            /\ \A n \in 1..Len(e.calls) :
                 LET fc == inp[base + 1 + n] IN
                 /\ DOMAIN fc = {"type", "id", "call_id", "name", "arguments"}
                 /\ fc.type = "function_call"
                 /\ fc.call_id = e.calls[n].id
                 /\ fc.name = e.calls[n].name
                 /\ fc.arguments = e.calls[n].arguments
            /\ \A n \in 1..Len(e.results) :
                 inp[base + 1 + Len(e.calls) + n] =
                   [type |-> "function_call_output", call_id |-> e.results[n].tool_call_id,
                    output |-> e.results[n].content]
    /\ \A i \in 1..Len(inp) :
         /\ IsFunctionCallOutput(inp[i]) =>
              Cardinality({j \in 1..(i - 1) :
                 IsFunctionCall(inp[j]) /\ inp[j].call_id = inp[i].call_id}) = 1
         /\ IsFunctionCall(inp[i]) =>
              Cardinality({j \in 1..Len(inp) :
                 IsFunctionCallOutput(inp[j]) /\ inp[j].call_id = inp[i].call_id}) = 1

\* an iteration with two calls, one of which failed, and a later iteration
C19_Witness ==
  /\ payload.provider = "openai"
  /\ Len(iterLog) >= 2
  /\ \E k \in 1..Len(iterLog) : Len(iterLog[k].calls) = 2
  /\ Len(payload.input) = 2 + AppendedB(Len(iterLog))

PrefixOf(s, t) == Len(s) <= Len(t) /\ s = SubSeq(t, 1, Len(s))

\* C20: the turn lists of a request (messages, and input for vendor B) have
\* the lists sent with the previous request of the run as unmodified prefix.
C20_ConversationAppendOnly ==
  [][(streamsOpened' = streamsOpened + 1 /\ streamsOpened >= 1) =>
       /\ PrefixOf(lastSent.messages, lastSent'.messages)
       /\ PrefixOf(lastSent.input, lastSent'.input)]_vars

\* C28: at the end of a stream the run goes on to tool execution iff the
\* assembler holds at least one call: a run that ends normally after a
\* stream holds no call of it (every function_call item of a summary event
\* is executed, with or without argument deltas before it), and a run that
\* executes tools holds a call.
C28_ExecutesIffCallsHeld ==
  /\ (pc = "done" /\ exitPath = "normal") => activeToolCalls = <<>>
  /\ pc \in {"connecting", "calling"} => activeToolCalls # <<>>

\* the next frame of the open stream
FrameDue == pc = "streaming" /\ esOpen /\ pos < Len(Cur.frames)

\* the stream of the current iteration has surfaced a vendor error frame
VendorErrorSurfaced ==
  /\ iteration \in errIter
  /\ onErrorLog # <<>>
  /\ onErrorLog[Len(onErrorLog)] \in {"provider_error", "bad_error_frame"}

\* C29: a vendor error frame calls the caller's error callback once and
\* closes the stream, and afterwards no text, tool or error event of that
\* stream reaches the caller.
C29_ErrorFrameEndsStream ==
  [][/\ (FrameDue /\ Cur.frames[pos + 1].ch = "llm-error") =>
          /\ Len(onErrorLog') = Len(onErrorLog) + 1
          /\ iteration \notin errIter
          /\ ~esOpen'
     /\ (VendorErrorSurfaced /\ iteration' = iteration) =>
          /\ ~esOpen'
          /\ onTextLog' = onTextLog
          /\ onErrorLog' = onErrorLog
          /\ pendingUi' = pendingUi
          /\ activeToolCalls' = activeToolCalls]_vars

\* an error frame was surfaced on a stream that had text, a tool start and
\* a second error frame after it: none of them was delivered
C29_Witness ==
  /\ pc = "done"
  /\ VendorErrorSurfaced
  /\ plan[Min(iteration, Len(plan))] = "errThenMore"
  /\ onErrorLog[Len(onErrorLog)] = "provider_error"
  /\ activeToolCalls = <<>>
  /\ rxText[Len(rxText)] = <<"a">>

\* the frame due on the text channel or a tool-event channel is not JSON
NoiseDue ==
  /\ FrameDue
  /\ Cur.frames[pos + 1].ch \in {"message", "tool"}
  /\ ~Cur.frames[pos + 1].json

\* C30: a frame whose payload is not valid JSON, on the text channel or a
\* tool-event channel, delivers no text, changes no assembler state, surfaces
\* no error and does not end the stream; a text frame that comes after it is
\* delivered as any other.
C30_NonJsonFrameIgnored ==
  [][/\ NoiseDue =>
          /\ onTextLog' = onTextLog
          /\ fullAssistantResponse' = fullAssistantResponse
          /\ pendingUi' = pendingUi
          /\ asmSt' = asmSt
          /\ onErrorLog' = onErrorLog
          /\ errIter' = errIter
          /\ esOpen' /\ pc' = "streaming"
          /\ pos' = pos + 1
     /\ (FrameDue /\ Cur.frames[pos + 1].ch = "message" /\ Cur.frames[pos + 1].json
         /\ Cur.frames[pos + 1].hasText) =>
          onTextLog' = Append(onTextLog, Cur.frames[pos + 1].text)]_vars

\* a stream with non-JSON frames on both channels ended: the text after them
\* was delivered and the call was assembled from the JSON fragment alone
C30_Witness ==
  /\ pc = "connecting"
  /\ plan[Min(iteration, Len(plan))] = "noisy"
  /\ onTextLog[Len(onTextLog)] = <<"z">>
  /\ Len(gwCalls) = 1
  /\ gwCalls[1].arguments = K1
  /\ iteration \notin errIter

TruncationWarned == \E n \in 1..Len(warnLog) : warnLog[n] = "max-iterations"

\* C15: a terminated run ended by exactly one of normal end, loop-break and
\* truncation, and the truncation warning is raised exactly when the loop
\* stopped at the ceiling although it would have continued.
C15_OneCauseOfTermination ==
  pc = "done" =>
    /\ exitPath \in {"normal", "loop-break", "while-guard"}
    /\ TruncationWarned <=> exitPath = "while-guard"

\* C22: a sampling request of an MCP tool is sent to the chat API in
\* server-MCP mode (providerMode anthropic-server-mcp), never in a
\* client-MCP mode.
C22_SamplingUsesServerMode ==
  sampling.pc # "idle" =>
    /\ sampling.payload.providerMode = ServerMcpMode
    /\ ~isClientMcpMode(sampling.payload.providerMode)

(***************************************************************************)
(* One iteration's assembler under every order of tool events: the frames  *)
(* are chosen one by one, then the stream ends and the calls are assembled.*)
(***************************************************************************)
AsmIds == {TId(1, 1), TId(1, 2)}
AsmFrags == {K1a, K1b, S1a, S1b}

AsmSummaries ==
  {<<FunctionCallItem(CId(1, 1), "roll_dice", K1)>>,
   <<MessageItem, FunctionCallItem(CId(1, 2), "look", K2)>>,
   <<FunctionCallItem(CId(1, 1), "roll_dice", K1), FunctionCallItem(CId(1, 2), "look", K2)>>}

\* vendor ids are unique within a stream; the summary event comes once
AsmEvents(provider) ==
  IF provider = "anthropic"
  THEN {ToolUseStart(id, "roll_dice", EmptyObj) :
          id \in {i \in AsmIds : \A n \in 1..Len(activeToolCalls) : activeToolCalls[n].id # i}}
       \cup {ToolInputDelta(f) : f \in AsmFrags}
       \cup {ToolUseComplete}
  ELSE {ArgsDelta(0, f) : f \in {K1a, K1b, K2}}
       \cup {ArgsDelta(1, K2), ArgsDone(0, K1)}
       \cup (IF \E n \in 1..Len(evLog) : evLog[n].type = "response_completed"
             THEN {} ELSE {ResponseCompleted(o) : o \in AsmSummaries})

\* the call records an ended stream yields (lines 271-334)
AssembledCalls(st) == IF ~st.has THEN <<>> ELSE CompletedToolCalls(st.atc)

InitAsm ==
  /\ InitCommon
  /\ pc = "asm"
  /\ \E provider \in Providers :
       payload = [provider |-> provider, messages |-> InitialMessages,
                  input |-> <<>>, hasInput |-> FALSE]
  /\ plan = <<>>
  /\ client = FALSE
  /\ gwCalls = <<>>

\* a tool-use frame arrives and onToolUseEvent handles it
AsmEvent ==
  /\ pc = "asm"
  /\ Len(evLog) < MaxAsmEvents
  /\ \E ev \in AsmEvents(payload.provider) :
       /\ SetAsm(OnToolUseEvent(asmSt, ev), fullAssistantResponse)
       /\ evLog' = Append(evLog, ev)
  /\ UNCHANGED <<plan, pc, iteration, pos, esOpen, failedToolCalls, payload, client,
                 gwCalls, gwResults, gwRaised, onTextLog, onErrorLog, onDoneCount, warnLog,
                 streamsOpened, rxText, errIter, execLog, turnLog, exitVars, lastSent,
                 iterLog, pendingUi, uiVars, sideVars>>

\* the stream ends; gwCalls receives the assembled call records
AsmEnd ==
  /\ pc = "asm"
  /\ pc' = "asmDone"
  /\ gwCalls' = AssembledCalls(asmSt)
  /\ UNCHANGED <<plan, iteration, pos, esOpen, activeToolCalls, hasToolCalls,
                 pendingDeltas, finalArgumentsByIndex, fullAssistantResponse,
                 failedToolCalls, payload, client, gwResults, gwRaised, onTextLog,
                 onErrorLog, onDoneCount, warnLog, streamsOpened, rxText, errIter, execLog,
                 turnLog, evLog, exitVars, lastSent, iterLog, pendingUi, uiVars, sideVars>>

NextAsm == AsmEvent \/ AsmEnd

SpecAsm == InitAsm /\ [][NextAsm]_vars

\* the input fragments sent for vendor-A call id: those delivered while its
\* block was the open one (from its start to the next block stop or start)
RECURSIVE FragsFor(_, _, _)
FragsFor(log, open, id) ==
  IF log = <<>> THEN <<>>
  ELSE LET e == Head(log) IN
    IF e.type = "tool_use_start" THEN FragsFor(Tail(log), e.id, id)
    ELSE IF e.type = "tool_use_complete" THEN FragsFor(Tail(log), NoId, id)
    ELSE IF e.type = "tool_input_delta"
      THEN (IF open = id THEN <<e.frag>> ELSE <<>>) \o FragsFor(Tail(log), open, id)
    ELSE FragsFor(Tail(log), open, id)

StartedIds == {e.id : e \in {x \in Range(evLog) : x.type = "tool_use_start"}}

StartOf(id) == CHOOSE e \in Range(evLog) : e.type = "tool_use_start" /\ e.id = id

ValidObjectText(text) ==
  /\ BracesBalanced(text)
  /\ JSONparse(text).ok
  /\ JSONparse(text).v.t = "obj"

\* the record of call id carries its id, its name and the parse of text
YieldsRecord(id, text) ==
  /\ Cardinality({n \in 1..Len(gwCalls) : gwCalls[n].id = id}) = 1
  /\ \A n \in 1..Len(gwCalls) :
       gwCalls[n].id = id =>
         /\ gwCalls[n].name = StartOf(id).name
         /\ JSONparse(gwCalls[n].arguments).ok
         /\ JSONparse(gwCalls[n].arguments).v = JSONparse(text).v

\* some proper prefix of the fragments is already brace-balanced
BalancedEarly(frags) ==
  \E k \in 1..(Len(frags) - 1) : BracesBalanced(Flatten(SubSeq(frags, 1, k)))

\* C8 as stated: every vendor-A call whose fragments concatenate to a
\* brace-balanced valid JSON object yields exactly one record with its id,
\* its name and arguments equal to the parse of the concatenation.
C8_Original ==
  pc = "asmDone" =>
    \A id \in StartedIds :
      LET text == Flatten(FragsFor(evLog, NoId, id)) IN
      ValidObjectText(text) => YieldsRecord(id, text)

\* C8 as amended: the same, for calls of which no proper prefix of the
\* fragments, taken at a fragment boundary, is already brace-balanced.
C8_AssembledArguments ==
  pc = "asmDone" =>
    \A id \in StartedIds :
      LET frags == FragsFor(evLog, NoId, id) IN
      (ValidObjectText(Flatten(frags)) /\ ~BalancedEarly(frags))
        => YieldsRecord(id, Flatten(frags))

\* two calls were started and the second one received both of its fragments
C8_Witness ==
  /\ pc = "asmDone"
  /\ Len(gwCalls) = 2
  /\ FragsFor(evLog, NoId, TId(1, 2)) = <<K1a, K1b>>
  /\ JSONparse(gwCalls[2].arguments).v = JSONparse(K1).v

SummaryIds ==
  LET S == SelectSeq(evLog, LAMBDA e : e.type = "response_completed") IN
  IF S = <<>> THEN <<>>
  ELSE FunctionCallIds(S[1].output)

IdsOf(calls) == [n \in 1..Len(calls) |-> calls[n].id]

\* C9: for vendor B argument deltas create no call; calls exist from the
\* summary event on, one per function_call item and under its call_id, so
\* deltas followed by a summary with one item yield exactly one record.
C9_SummaryMintsCalls ==
  payload.provider = "openai" =>
    /\ IdsOf(activeToolCalls) = SummaryIds
    /\ (pc = "asmDone" /\ hasToolCalls) => IdsOf(gwCalls) = SummaryIds

BraceCountsEqual(text) == Count(text, LB) = Count(text, RB)

\* C16: no call record is made from a pending call whose accumulated
\* fragment text has unequal numbers of opening and closing braces; a stream
\* that ends on such a fragment yields no record for that call.
C16_NoUnbalancedFinalized ==
  pc = "asmDone" =>
    \A n \in 1..Len(activeToolCalls) :
      (\E m \in 1..Len(gwCalls) : gwCalls[m].id = activeToolCalls[n].id)
        => BraceCountsEqual(activeToolCalls[n].inputJson)

\* position in the stream of the tool_use_start event of call id
StartPos(id) ==
  CHOOSE k \in 1..Len(evLog) : evLog[k].type = "tool_use_start" /\ evLog[k].id = id

Pending(tc) == ~tc.complete /\ ~tc.inputComplete

\* an input fragment is being delivered to the assembler
FragmentStep ==
  /\ pc = "asm"
  /\ Len(evLog') = Len(evLog) + 1
  /\ evLog'[Len(evLog')].type = "tool_input_delta"

Contains(text, frag) ==
  \E i \in 0..(Len(text) - Len(frag)) : SubSeq(text, i + 1, i + Len(frag)) = frag

\* C24: when the stream has ended, every non-empty input fragment delivered
\* after a tool call had started is contained in the accumulated fragment
\* text of some call of the iteration.
C24_NoFragmentLost ==
  pc = "asmDone" =>
    \A k \in 1..Len(evLog) :
      (/\ evLog[k].type = "tool_input_delta"
       /\ evLog[k].frag # <<>>
       /\ \E j \in 1..(k - 1) : evLog[j].type = "tool_use_start")
        => \E n \in 1..Len(activeToolCalls) :
             Contains(activeToolCalls[n].inputJson, evLog[k].frag)

\* in log, call id was started before some tool_use_complete event
StartedBeforeComplete(log, id) ==
  \E j, k \in 1..Len(log) :
    /\ j < k
    /\ log[j].type = "tool_use_start" /\ log[j].id = id
    /\ log[k].type = "tool_use_complete"

\* C25: after a tool_use_complete event every call started before it is
\* complete, and no fragment delivered later is appended to such a call.
C25_CompleteClosesEarlierCalls ==
  [][/\ \A n \in 1..Len(activeToolCalls') :
          StartedBeforeComplete(evLog', activeToolCalls'[n].id) => activeToolCalls'[n].complete
     /\ FragmentStep =>
          \A n \in 1..Len(activeToolCalls) :
            StartedBeforeComplete(evLog, activeToolCalls[n].id)
              => activeToolCalls'[n].inputJson = activeToolCalls[n].inputJson]_vars

\* a call was closed without fragments, a second one started after the
\* event, and the fragment that followed went to the second call
C25_Witness ==
  /\ pc = "asm"
  /\ Len(evLog) = 4
  /\ evLog[2].type = "tool_use_complete"
  /\ evLog[3].type = "tool_use_start"
  /\ evLog[4].type = "tool_input_delta"
  /\ Len(activeToolCalls) = 2
  /\ activeToolCalls[1].complete /\ activeToolCalls[1].inputJson = <<>>
  /\ activeToolCalls[2].inputJson = evLog[4].frag

ParseFails(text) == text # <<>> /\ ~JSONparse(text).ok

\* C26: a fragment buffer that fails to parse when the calls are assembled
\* neither aborts the assembly nor drops the call: every call of the
\* iteration yields exactly one record, and the record of a call whose
\* buffer fails to parse carries the argument value the call had before.
C26_ParseFailureKeepsCall ==
  (pc = "asmDone" /\ hasToolCalls) =>
    /\ Len(gwCalls) = Len(activeToolCalls)
    /\ \A n \in 1..Len(activeToolCalls) :
         LET tc == activeToolCalls[n] IN
         /\ Cardinality({m \in 1..Len(gwCalls) : gwCalls[m].id = tc.id}) = 1
         /\ ParseFails(tc.inputJson) =>
              \A m \in 1..Len(gwCalls) :
                gwCalls[m].id = tc.id =>
                  /\ gwCalls[m].name = tc.name
                  /\ gwCalls[m].arguments = JSONstringify(tc.input)

\* two calls were assembled, the buffer of the first does not parse
C26_Witness ==
  /\ pc = "asmDone"
  /\ Len(gwCalls) = 2
  /\ ParseFails(activeToolCalls[1].inputJson)
  /\ activeToolCalls[2].inputJson = <<>>
  /\ gwCalls[1].arguments = <<LB, RB>>

\* the function_call items of the summary event of the stream
SummaryCalls ==
  LET S == SelectSeq(evLog, LAMBDA e : e.type = "response_completed") IN
  IF S = <<>> THEN <<>> ELSE SelectSeq(S[1].output, IsFunctionCall)

\* C27: for vendor B the arguments of a call record are those of the summary
\* event: the parse of the arguments string of its function_call item,
\* whatever fragments the delta events left for that output index.
C27_SummaryArgumentsAuthoritative ==
  (pc = "asmDone" /\ payload.provider = "openai") =>
    \A m \in 1..Len(gwCalls) :
      \A n \in 1..Len(SummaryCalls) :
        SummaryCalls[n].call_id = gwCalls[m].id =>
          JSONparse(gwCalls[m].arguments).v = JSONparse(SummaryCalls[n].arguments).v

\* three fragments for output index 0, then a summary with one item
C9_Witness ==
  /\ pc = "asmDone"
  /\ payload.provider = "openai"
  /\ Len(evLog) = 4
  /\ \A n \in 1..3 : evLog[n].type = "function_call_arguments_delta" /\ evLog[n].idx = 0
  /\ IdsOf(gwCalls) = <<CId(1, 1)>>

(***************************************************************************)
(* executeMcpTools on its own, for every list of calls and every outcome.  *)
(***************************************************************************)
GwArgs == {K1, K1a}

GwCallLists ==
  UNION {[1..n -> {ToolCall(TId(1, 1), "roll_dice", a) : a \in GwArgs}
                   \cup {ToolCall(TId(1, 2), "look", a) : a \in GwArgs}] :
         n \in 0..MaxGwCalls}

InitGw ==
  /\ InitCommon
  /\ pc = "gwConnecting"
  /\ payload = [provider |-> "anthropic", messages |-> InitialMessages,
                input |-> <<>>, hasInput |-> FALSE]
  /\ plan = <<>>
  /\ client \in BOOLEAN
  /\ gwCalls \in GwCallLists

\* getClient settles: connected, or the connection attempt is rejected
GwConnect ==
  /\ pc = "gwConnecting"
  /\ \E connectOk \in BOOLEAN :
       IF client \/ connectOk THEN
         /\ client' = TRUE
         /\ gwResults' = GwStart(gwCalls)
         /\ pc' = IF GwFinished(gwCalls, GwStart(gwCalls)) THEN "gwReturned" ELSE "gwCalling"
         /\ UNCHANGED gwRaised
       ELSE
         /\ gwRaised' = TRUE
         /\ pc' = "gwRejected"
         /\ UNCHANGED <<client, gwResults>>
  /\ UNCHANGED <<plan, iteration, pos, esOpen, activeToolCalls, hasToolCalls,
                 pendingDeltas, finalArgumentsByIndex, fullAssistantResponse,
                 failedToolCalls, payload, gwCalls, onTextLog, onErrorLog, onDoneCount,
                 warnLog, streamsOpened, rxText, errIter, execLog, turnLog, evLog,
                 exitVars, lastSent, iterLog, pendingUi, uiVars, sideVars>>

\* the pending client.callTool settles with some outcome
GwCallTool ==
  /\ pc = "gwCalling"
  /\ \E outcome \in Outcomes :
       LET n == Len(gwResults) + 1
           results == GwStep(gwCalls, gwResults, outcome)
       IN /\ gwResults' = results
          /\ execLog' = Append(execLog, ExecEntry(n, outcome, results[n]))
          /\ pc' = IF GwFinished(gwCalls, results) THEN "gwReturned" ELSE "gwCalling"
  /\ UNCHANGED <<plan, iteration, pos, esOpen, activeToolCalls, hasToolCalls,
                 pendingDeltas, finalArgumentsByIndex, fullAssistantResponse,
                 failedToolCalls, payload, client, gwCalls, gwRaised, onTextLog,
                 onErrorLog, onDoneCount, warnLog, streamsOpened, rxText, errIter, turnLog,
                 evLog, exitVars, lastSent, iterLog, pendingUi, uiVars, sideVars>>

NextGw == GwConnect \/ GwCallTool

SpecGw == InitGw /\ [][NextGw]_vars

\* C6: executeMcpTools never raises; it returns one result per call, in call
\* order, and every call whose arguments parse is dispatched whatever
\* happened to the calls before it.
C6_GatewayNeverRaises ==
  /\ ~gwRaised
  /\ pc # "gwRejected"
  /\ pc = "gwReturned" =>
       /\ Len(gwResults) = Len(gwCalls)
       /\ \A n \in 1..Len(gwCalls) : gwResults[n].tool_call_id = gwCalls[n].id
       /\ \A n \in 1..Len(gwCalls) :
            JSONparse(gwCalls[n].arguments).ok => \E e \in Range(execLog) : e.n = n


(***************************************************************************)
(* useChat.ts: sendMessage over the plain openChatStream.                  *)
(***************************************************************************)
exceptPlain == <<chatVars, sampling, strm, chatStore, rpcSt, mcpConn, toolFilter, pager>>

PlainDeltas == {<<"a">>, <<" ">>, <<"b", " ">>}

\* sendMessage(content) up to the return of openChatStream: the assistant
\* placeholder is empty, pending is '' and raf is 0
PlainSend ==
  /\ plain.pc = "idle"
  /\ plain' = [plain EXCEPT !.pc = "open"]
  /\ UNCHANGED exceptPlain

\* the text callback: pending += delta; if (!raf) raf = requestAnimationFrame(flush)
PlainOnText ==
  /\ plain.pc = "open"
  /\ Len(plain.delivered) < MaxPlainDeltas
  /\ \E delta \in PlainDeltas :
       plain' = [plain EXCEPT !.pending = @ \o delta, !.raf = TRUE,
                              !.delivered = Append(@, delta)]
  /\ UNCHANGED exceptPlain

\* flush, run by the animation frame that raf names
PlainFlush ==
  /\ plain.raf
  /\ plain' = IF plain.pending = <<>> THEN plain
              ELSE [plain EXCEPT !.content = @ \o plain.pending, !.pending = <<>>,
                                 !.raf = FALSE]
  /\ UNCHANGED exceptPlain

\* the game_response that onDone hands to recordInteraction
PlainResponse(p) == p.content

\* the stream ends with a done frame, a vendor error or a transport error:
\* safeDone calls onDone, which records the interaction, and closes the stream
PlainEnd ==
  /\ plain.pc = "open"
  /\ \E how \in {"done", "llm-error", "transport"} :
       plain' = [plain EXCEPT
                   !.pc = "closed",
                   !.error = IF how = "done" THEN @ ELSE how,
                   !.recorded = Append(@, RecordEntry(1, UserText, PlainResponse(plain)))]
  /\ UNCHANGED exceptPlain

NextPlain == PlainSend \/ PlainOnText \/ PlainFlush \/ PlainEnd

SpecPlain == InitIdle /\ [][NextPlain]_vars

\* C31: the assistant text handed to recordInteraction equals, up to trimming,
\* the concatenation in order of all text deltas delivered to the text
\* callback during the exchange, flushed to the displayed message or not.
C31_RecordedTextIsDeliveredText ==
  \A n \in 1..Len(plain.recorded) :
    Trim(plain.recorded[n].game_response) = Trim(Flatten(plain.delivered))


(***************************************************************************)
(* One stream: streamSimpleResponse on the server, openChatStream's        *)
(* EventSource handlers and its returned close function on the client.     *)
(***************************************************************************)
exceptStrm == <<chatVars, sampling, plain, chatStore, rpcSt, mcpConn, toolFilter, pager>>

\* the frames streamSimpleResponse writes for one vendor event: a text frame
\* for a text delta, a done frame at message_stop, an llm-error frame for an
\* error event, tool events under their own event name
UpstreamFrames(provider, evt) ==
  IF provider = "anthropic" /\ evt = "text_delta" THEN <<"text">>
  ELSE IF provider = "anthropic" /\ evt = "message_stop" THEN <<"done">>
  ELSE IF provider = "openai" /\ evt = "content" THEN <<"text">>
  ELSE IF evt = "error" THEN <<"llm-error">>
  ELSE <<>>

\* what streamSimpleResponse writes when reader.read() reports the end
UpstreamEndFrames == <<"done">>

\* safeDone: onDone is called, then the EventSource is closed
safeDone(s) == [s EXCEPT !.onDoneCalls = @ + 1, !.esOpen = FALSE]

\* the client opens the EventSource; the server fetches from the vendor
StrmOpen ==
  /\ strm.pc = "idle"
  /\ \E provider \in {"anthropic", "openai"}, up \in {"ok", "upstream_fetch_failed", "upstream_non_2xx"} :
       strm' = [strm EXCEPT !.provider = provider, !.esOpen = TRUE,
                            !.pc = IF up = "ok" THEN "serving" ELSE "ended",
                            !.wire = IF up = "ok" THEN <<>> ELSE <<"llm-error">>]
  /\ UNCHANGED exceptStrm

\* the server takes one vendor event out of its buffer; message_stop is the
\* last event of a vendor stream
StrmUpstream ==
  /\ strm.pc = "serving"
  /\ strm.upstreamRead < MaxUpstreamEvents
  /\ strm.upstreamLast # "message_stop"
  /\ \E evt \in {"text_delta", "content", "message_stop", "error"} :
       strm' = [strm EXCEPT !.upstreamRead = @ + 1, !.upstreamLast = evt,
                            !.wire = @ \o UpstreamFrames(strm.provider, evt)]
  /\ UNCHANGED exceptStrm

\* the vendor's body ends: the read loop is left, the response is ended
StrmUpstreamEnd ==
  /\ strm.pc = "serving"
  /\ strm' = [strm EXCEPT !.pc = "ended", !.wire = @ \o UpstreamEndFrames]
  /\ UNCHANGED exceptStrm

\* the open EventSource delivers the next frame to its listener
StrmDeliver ==
  /\ strm.esOpen
  /\ strm.next <= Len(strm.wire)
  /\ LET f == strm.wire[strm.next]
         s == [strm EXCEPT !.next = @ + 1]
     IN strm' = IF f = "text" THEN [s EXCEPT !.onTextCalls = @ + 1]
                ELSE IF f = "done" THEN safeDone(s)
                ELSE safeDone([s EXCEPT !.onErrorCalls = @ + 1])
  /\ UNCHANGED exceptStrm

\* es.onerror: the connection of the open EventSource fails
StrmTransportError ==
  /\ strm.esOpen
  /\ strm' = safeDone([strm EXCEPT !.onErrorCalls = @ + 1])
  /\ UNCHANGED exceptStrm

\* the caller calls the function that openChatStream returned
StrmClose ==
  /\ strm.pc # "idle"
  /\ strm.closeCalls < MaxCloseCalls
  /\ strm' = safeDone([strm EXCEPT !.closeCalls = @ + 1])
  /\ UNCHANGED exceptStrm

NextStrm ==
  StrmOpen \/ StrmUpstream \/ StrmUpstreamEnd \/ StrmDeliver \/ StrmTransportError
    \/ StrmClose

SpecStrm == InitIdle /\ [][NextStrm]_vars

DoneFrames(wire) == Cardinality({n \in 1..Len(wire) : wire[n] = "done"})

\* C32: a stream signals its end exactly once: onDone is never invoked a
\* second time for the same stream, whichever of done frame, error frame,
\* transport error and close call occur, and the server writes one done frame,
\* never more, on a stream it has read to the end.
C32_EndSignalledOnce ==
  /\ strm.onDoneCalls <= 1
  /\ DoneFrames(strm.wire) <= 1
  /\ (strm.pc = "ended" /\ strm.upstreamRead > 0 => DoneFrames(strm.wire) = 1)


(***************************************************************************)
(* Server: POST /api/chat/session and GET /api/chat/stream over the        *)
(* in-memory __CHAT_STORE__.                                               *)
(***************************************************************************)
exceptChatStore == <<chatVars, sampling, plain, strm, rpcSt, mcpConn, toolFilter, pager>>

\* the step of the clock: half the lifetime of a session id
TickMs == sessionTtlMs \div 2

\* the check of both handlers: provider, model and a messages array
BodyValid(body) == body = "chatBody"

\* store.get(String(sid)): undefined when the Map has no such key
StoreGet(store, sid) == IF sid \in store THEN "chatBody" ELSE "undefined"

StoreAfterRequest_Keeps(store, sid) == store

\* store.delete(String(sid || ''))
StoreAfterRequest(store, sid) == store \ {sid}

\* POST /api/chat/session: 400 for an invalid body; otherwise a new uuid is
\* stored and a timer is set that deletes it after sessionTtlMs
PostSession ==
  /\ chatStore.nextSid <= MaxSessions
  /\ \E body \in {"chatBody", "noMessages"} :
       chatStore' =
         IF ~BodyValid(body) THEN [chatStore EXCEPT !.pc = "rejected400"]
         ELSE LET sid == chatStore.nextSid
              IN [chatStore EXCEPT
                    !.pc = "stored",
                    !.nextSid = @ + 1,
                    !.store = @ \cup {sid},
                    !.timers = @ \cup {[sid |-> sid, due |-> chatStore.clock + sessionTtlMs]},
                    !.created = Append(@, chatStore.clock)]
  /\ UNCHANGED exceptChatStore

\* a timer that is due runs its callback: store.delete(sid)
TimerFire ==
  /\ \E t \in chatStore.timers :
       /\ t.due <= chatStore.clock
       /\ chatStore' = [chatStore EXCEPT !.pc = "expired", !.store = @ \ {t.sid},
                                         !.timers = @ \ {t}]
  /\ UNCHANGED exceptChatStore

\* time passes; a timer that is due runs before the clock moves on
Tick ==
  /\ chatStore.clock < MaxTicks * TickMs
  /\ \A t \in chatStore.timers : t.due > chatStore.clock
  /\ chatStore' = [chatStore EXCEPT !.clock = @ + TickMs]
  /\ UNCHANGED exceptChatStore

\* GET /api/chat/stream?sid=...: the body is taken out of the store; without
\* a valid body a bad_request frame ends the response; without an API key a
\* missing_key frame does; otherwise the vendor is called
StreamRequest ==
  /\ Len(chatStore.requests) < MaxStreamRequests
  /\ \E sid \in 0..(chatStore.nextSid - 1), apiKey \in BOOLEAN :
       LET body == IF sid # 0 THEN StoreGet(chatStore.store, sid) ELSE "null"
           outcome == IF ~BodyValid(body) THEN "bad_request"
                      ELSE IF ~apiKey THEN "missing_key"
                      ELSE "upstream"
       IN chatStore' =
            [chatStore EXCEPT
               !.pc = "requested",
               !.store = StoreAfterRequest(@, sid),
               !.requests = Append(@, [sid |-> sid, at |-> chatStore.clock,
                                       outcome |-> outcome]),
               !.upstreamCalls = IF outcome = "upstream" THEN Append(@, sid) ELSE @]
  /\ UNCHANGED exceptChatStore

NextChatStore == PostSession \/ TimerFire \/ Tick \/ StreamRequest

SpecChatStore == InitIdle /\ [][NextChatStore]_vars

\* C33: a session id starts at most one stream: a request for an sid that an
\* earlier request named, or made more than two minutes after the sid was
\* created, gets a bad_request frame, and a request that gets bad_request
\* causes no vendor call.
C33_SidStartsOneStream ==
  LET rq == chatStore.requests
  IN /\ \A n \in 1..Len(rq) :
          (rq[n].sid # 0
            /\ ((\E k \in 1..(n - 1) : rq[k].sid = rq[n].sid)
                 \/ rq[n].at - chatStore.created[rq[n].sid] > sessionTtlMs))
            => rq[n].outcome = "bad_request"
     /\ Len(chatStore.upstreamCalls)
          = Cardinality({n \in 1..Len(rq) : rq[n].outcome = "upstream"})
     /\ \A i, j \in 1..Len(chatStore.upstreamCalls) :
          chatStore.upstreamCalls[i] = chatStore.upstreamCalls[j] => i = j

\* a second request for a consumed sid, and a first request for an expired
\* one, were both answered
C33_Witness ==
  LET rq == chatStore.requests
  IN \E n, m \in 1..Len(rq) :
       /\ rq[n].sid # 0
       /\ \E k \in 1..(n - 1) : rq[k].sid = rq[n].sid /\ rq[k].outcome = "upstream"
       /\ rq[m].sid \notin {0, rq[n].sid}
       /\ \A k \in 1..(m - 1) : rq[k].sid # rq[m].sid
       /\ rq[m].at - chatStore.created[rq[m].sid] > sessionTtlMs


(***************************************************************************)
(* useMcp: initMcpSession, ensureSession and rpc against the MCP server.   *)
(* Session ids are numbers, 0 is null; a promise is named by its position  *)
(* in promises.                                                            *)
(***************************************************************************)
exceptRpc == <<chatVars, sampling, plain, strm, chatStore, mcpConn, toolFilter, pager>>

RpcCallers == 1..MaxRpcCalls

\* the page loads: localStorage holds no session id, or one of an earlier
\* page load that the server may have forgotten
RpcPageLoad ==
  /\ rpcSt.pc = "idle"
  /\ \E stored \in {0, 1}, valid \in {{}, {1}} :
       /\ stored = 0 => valid = {}
       /\ rpcSt' = [rpcSt EXCEPT !.pc = "loaded", !.storedSid = stored,
                                 !.serverValid = valid, !.serverNext = stored + 1]
  /\ UNCHANGED exceptRpc

\* the session id the retry of rpc carries: the const that ensureSession
\* returned before the first attempt
RetrySid(call) == call.sid

\* rpc up to its first await: ensureSession returns inMemorySid, or awaits
\* the initialization under way, or starts initMcpSession(), which returns
\* the stored id or sends an initialize request
RpcStart(c) ==
  /\ rpcSt.pc = "loaded"
  /\ rpcSt.calls[c].pc = "idle"
  /\ rpcSt' =
       IF rpcSt.inMemorySid # 0
         THEN [rpcSt EXCEPT !.calls[c].pc = "fetch1", !.calls[c].sid = rpcSt.inMemorySid]
       ELSE IF rpcSt.initializing # 0
         THEN [rpcSt EXCEPT !.calls[c].pc = "awaitInit",
                            !.calls[c].awaiting = rpcSt.initializing]
       ELSE LET p == Len(rpcSt.promises) + 1
            IN IF rpcSt.storedSid # 0
                 THEN [rpcSt EXCEPT
                         !.inMemorySid = rpcSt.storedSid,
                         !.promises = Append(@, [state |-> "resolved",
                                                 value |-> rpcSt.storedSid]),
                         !.initializing = p,
                         !.calls[c].pc = "awaitInit", !.calls[c].awaiting = p]
                 ELSE [rpcSt EXCEPT
                         !.promises = Append(@, [state |-> "pending", value |-> 0]),
                         !.inFlight = @ \cup {[kind |-> "ensure", of |-> p]},
                         !.initializing = p,
                         !.calls[c].pc = "awaitInit", !.calls[c].awaiting = p]
  /\ UNCHANGED exceptRpc

\* the callers that await promise p continue: finally { initializing = null }
AfterEnsure(calls, p, ok, sid) ==
  [c \in RpcCallers |->
     IF calls[c].pc = "awaitInit" /\ calls[c].awaiting = p
       THEN IF ok THEN [calls[c] EXCEPT !.pc = "fetch1", !.sid = sid]
            ELSE [calls[c] EXCEPT !.pc = "failed"]
       ELSE calls[c]]

\* the initialize request of initMcpSession() is answered: the new id is
\* stored, or the promise rejects; its awaiters continue in the same turn
InitResponse ==
  /\ \E r \in rpcSt.inFlight, ok \in BOOLEAN :
       /\ r.kind = "ensure"
       /\ LET n == rpcSt.serverNext
          IN rpcSt' =
               [rpcSt EXCEPT
                  !.inFlight = @ \ {r},
                  !.serverNext = IF ok THEN n + 1 ELSE @,
                  !.serverValid = IF ok THEN @ \cup {n} ELSE @,
                  !.inMemorySid = IF ok THEN n ELSE @,
                  !.storedSid = IF ok THEN n ELSE @,
                  !.promises[r.of] = IF ok THEN [state |-> "resolved", value |-> n]
                                     ELSE [state |-> "rejected", value |-> 0],
                  !.initializing = IF \E c \in RpcCallers :
                                        /\ rpcSt.calls[c].pc = "awaitInit"
                                        /\ rpcSt.calls[c].awaiting = r.of
                                     THEN 0 ELSE @,
                  !.calls = AfterEnsure(@, r.of, ok, n)]
  /\ UNCHANGED exceptRpc

\* a caller that awaited a promise which was already resolved continues
EnsureReturn(c) ==
  /\ rpcSt.calls[c].pc = "awaitInit"
  /\ rpcSt.promises[rpcSt.calls[c].awaiting].state = "resolved"
  /\ rpcSt' = [rpcSt EXCEPT
                 !.initializing = 0,
                 !.calls[c].pc = "fetch1",
                 !.calls[c].sid = rpcSt.promises[rpcSt.calls[c].awaiting].value]
  /\ UNCHANGED exceptRpc

\* doFetch: the request carries the Mcp-Session-Id header; the server answers
\* 404 session not found for an id it does not know.  After the first
\* attempt that answer starts initMcpSession(true); otherwise a failure throws
RpcFetch(c) ==
  /\ rpcSt.calls[c].pc \in {"fetch1", "fetch2"}
  /\ LET call == rpcSt.calls[c]
         hdr == IF call.pc = "fetch1" THEN call.sid ELSE RetrySid(call)
     IN \E answer \in {"ok", "http500", "notFound"} :
          /\ answer = "notFound" <=> hdr \notin rpcSt.serverValid
          /\ rpcSt' =
               IF answer = "ok"
                 THEN [rpcSt EXCEPT !.calls[c].sent = Append(@, hdr),
                                    !.calls[c].pc = "done"]
               ELSE IF answer = "notFound" /\ call.pc = "fetch1"
                 THEN [rpcSt EXCEPT !.calls[c].sent = Append(@, hdr),
                                    !.calls[c].pc = "awaitReinit",
                                    !.inFlight = @ \cup {[kind |-> "force", of |-> c]}]
               ELSE [rpcSt EXCEPT !.calls[c].sent = Append(@, hdr),
                                  !.calls[c].pc = "failed"]
  /\ UNCHANGED exceptRpc

\* the initialize request of initMcpSession(true) is answered
ReinitResponse(c) ==
  /\ rpcSt.calls[c].pc = "awaitReinit"
  /\ \E ok \in BOOLEAN :
       LET n == rpcSt.serverNext
       IN rpcSt' =
            IF ok
              THEN [rpcSt EXCEPT
                      !.inFlight = @ \ {[kind |-> "force", of |-> c]},
                      !.serverNext = n + 1,
                      !.serverValid = @ \cup {n},
                      !.inMemorySid = n,
                      !.storedSid = n,
                      !.calls[c].newSid = n,
                      !.calls[c].pc = "fetch2"]
              ELSE [rpcSt EXCEPT
                      !.inFlight = @ \ {[kind |-> "force", of |-> c]},
                      !.calls[c].pc = "failed"]
  /\ UNCHANGED exceptRpc

\* the MCP server restarts and knows none of the ids it issued
ServerExpire ==
  /\ rpcSt.pc = "loaded"
  /\ rpcSt.expiries < MaxExpiries
  /\ rpcSt.serverValid # {}
  /\ rpcSt' = [rpcSt EXCEPT !.serverValid = {}, !.expiries = @ + 1]
  /\ UNCHANGED exceptRpc

NextRpc ==
  \/ RpcPageLoad
  \/ \E c \in RpcCallers : RpcStart(c)
  \/ InitResponse
  \/ \E c \in RpcCallers : EnsureReturn(c)
  \/ \E c \in RpcCallers : RpcFetch(c)
  \/ \E c \in RpcCallers : ReinitResponse(c)
  \/ ServerExpire

SpecRpc == InitIdle /\ [][NextRpc]_vars

\* C34: after session-not-found or 404, rpc initializes a new session once
\* and repeats the request once, carrying the newly obtained session id; one
\* rpc call never sends more than two requests.
C34_RetryCarriesNewSession ==
  \A c \in RpcCallers :
    LET call == rpcSt.calls[c]
    IN /\ Len(call.sent) <= 2
       /\ Len(call.sent) = 2 => (call.newSid # 0 /\ call.sent[2] = call.newSid)

\* C37: session initialization is single-flight: at most one initialize
\* request is in flight at any time, and rpc calls that hit the same expired
\* session end up with one and the same newly issued session id.
C37_InitializeSingleFlight ==
  /\ Cardinality(rpcSt.inFlight) <= 1
  /\ \A c, d \in RpcCallers :
       (rpcSt.calls[c].sid = rpcSt.calls[d].sid
          /\ rpcSt.calls[c].newSid # 0 /\ rpcSt.calls[d].newSid # 0)
         => rpcSt.calls[c].newSid = rpcSt.calls[d].newSid


(***************************************************************************)
(* useMcpClient.ts: connectClient and withClient.  Clients are numbered in *)
(* the order in which they connect, 0 is null; a promise is named by its   *)
(* position in promises.                                                   *)
(***************************************************************************)
exceptMcpConn == <<chatVars, sampling, plain, strm, chatStore, rpcSt, toolFilter, pager>>

WcCallers == 1..MaxWithClientCalls

\* connectClient() called by c, which then awaits what it returned: the
\* client, or the promise in connecting, or the promise of a new attempt
ConnectClient(m, c, pcRun, pcAwait) ==
  IF m.client # 0
    THEN [m EXCEPT !.calls[c].pc = pcRun, !.calls[c].cl = m.client]
  ELSE IF m.connecting # 0
    THEN [m EXCEPT !.calls[c].pc = pcAwait, !.calls[c].awaiting = m.connecting,
                   !.calls[c].stale = (m.promises[m.connecting].state = "rejected")]
  ELSE [m EXCEPT !.promises = Append(@, [state |-> "pending", value |-> 0]),
                 !.connecting = Len(m.promises) + 1,
                 !.calls[c].pc = pcAwait, !.calls[c].awaiting = Len(m.promises) + 1]

\* withClient(fn) up to its first await
WcStart(c) ==
  /\ mcpConn.calls[c].pc = "idle"
  /\ mcpConn' = ConnectClient(mcpConn, c, "run1", "awaitConn1")
  /\ UNCHANGED exceptMcpConn

\* what the awaiter of a settled promise does next: run fn on the client, or
\* throw the rejection without calling fn
AfterAwait(call, promise) ==
  IF promise.state = "resolved"
    THEN [call EXCEPT !.pc = IF call.pc = "awaitConn1" THEN "run1" ELSE "run2",
                      !.cl = promise.value]
    ELSE [call EXCEPT !.pc = "failed", !.outcome = "connectError"]

\* c.connect(transport) of the attempt in flight settles: on success client
\* is set and connecting is cleared; on failure the async function throws.
\* The calls that await the promise continue in the same turn
ConnectSettles ==
  /\ \E p \in 1..Len(mcpConn.promises), ok \in BOOLEAN :
       /\ mcpConn.promises[p].state = "pending"
       /\ LET n == mcpConn.nextClient
              settled == IF ok THEN [state |-> "resolved", value |-> n]
                         ELSE [state |-> "rejected", value |-> 0]
          IN mcpConn' =
               [mcpConn EXCEPT
                  !.promises[p] = settled,
                  !.nextClient = IF ok THEN n + 1 ELSE @,
                  !.client = IF ok THEN n ELSE @,
                  !.connecting = IF ok THEN 0 ELSE @,
                  !.calls = [c \in WcCallers |->
                               IF @[c].pc \in {"awaitConn1", "awaitConn2"} /\ @[c].awaiting = p
                                 THEN AfterAwait(@[c], settled) ELSE @[c]]]
  /\ UNCHANGED exceptMcpConn

\* a call that awaits a promise which had settled before continues
WcAwaitSettled(c) ==
  /\ mcpConn.calls[c].pc \in {"awaitConn1", "awaitConn2"}
  /\ mcpConn.promises[mcpConn.calls[c].awaiting].state # "pending"
  /\ mcpConn' = [mcpConn EXCEPT
                   !.calls[c] = AfterAwait(@, mcpConn.promises[@.awaiting])]
  /\ UNCHANGED exceptMcpConn

\* the test of the catch block on the message of the error
IsSessionError(err) == err \in {"session expired", "not found"}

\* fn(c) settles: its value is returned; after the first attempt an error
\* whose message names a session, expired or not found leads to the
\* disconnect; any other error, and any error of the second attempt, is thrown
WcRun(c) ==
  /\ mcpConn.calls[c].pc \in {"run1", "run2"}
  /\ \E r \in {"ok", "session expired", "not found", "timeout"} :
       LET call == [mcpConn.calls[c] EXCEPT
                      !.runs = Append(@, mcpConn.calls[c].cl),
                      !.errors = IF r = "ok" THEN @ ELSE Append(@, r)]
       IN mcpConn' =
            [mcpConn EXCEPT
               !.calls[c] =
                  IF r = "ok" THEN [call EXCEPT !.pc = "done", !.outcome = "ok"]
                  ELSE IF call.pc = "run1" /\ IsSessionError(r)
                    THEN [call EXCEPT !.pc = "disconnecting"]
                  ELSE [call EXCEPT !.pc = "failed", !.outcome = r]]
  /\ UNCHANGED exceptMcpConn

ClientAfterTeardown_Kept(cl) == cl

\* client = null
ClientAfterTeardown(cl) == 0

\* after the await of disconnect: client is cleared and connectClient called
WcReconnect(c) ==
  /\ mcpConn.calls[c].pc = "disconnecting"
  /\ mcpConn' = ConnectClient([mcpConn EXCEPT !.client = ClientAfterTeardown(@)],
                              c, "run2", "awaitConn2")
  /\ UNCHANGED exceptMcpConn

NextMcpConn ==
  \/ \E c \in WcCallers : WcStart(c)
  \/ ConnectSettles
  \/ \E c \in WcCallers : WcAwaitSettled(c)
  \/ \E c \in WcCallers : WcRun(c)
  \/ \E c \in WcCallers : WcReconnect(c)

SpecMcpConn == InitIdle /\ [][NextMcpConn]_vars

\* C35: a failed connection attempt is not remembered: no call is handed the
\* promise of an attempt that had already failed when the call was made.
C35_FailedAttemptNotRemembered ==
  \A c \in WcCallers : ~mcpConn.calls[c].stale

\* C36: withClient runs fn at most twice, the second time only after a
\* session/expired/not-found error of the first attempt and on another,
\* later connected client; every other error, and any error of the second
\* attempt, reaches the caller.
C36_RetryOnceOnNewClient ==
  \A c \in WcCallers :
    LET call == mcpConn.calls[c]
    IN /\ Len(call.runs) <= 2
       /\ Len(call.runs) = 2 =>
            (IsSessionError(call.errors[1]) /\ call.runs[2] > call.runs[1])
       /\ (Len(call.errors) >= 1 /\ ~IsSessionError(call.errors[1])) =>
            (call.outcome = call.errors[1] /\ Len(call.runs) = 1)
       /\ Len(call.errors) = 2 => call.outcome = call.errors[2]

\* one call ran fn again on a new client and succeeded; the other call's
\* second attempt failed and its error reached the caller
C36_Witness ==
  \E c, d \in WcCallers :
    /\ Len(mcpConn.calls[c].runs) = 2 /\ mcpConn.calls[c].outcome = "ok"
    /\ Len(mcpConn.calls[d].errors) = 2 /\ mcpConn.calls[d].outcome = "not found"


(***************************************************************************)
(* useClientToolCalling: filterToolsByModes.  A tag prefix:rest is the     *)
(* pair <<prefix, rest>>.                                                  *)
(***************************************************************************)
exceptToolFilter == <<chatVars, sampling, plain, strm, chatStore, rpcSt, mcpConn, pager>>

GameModes == {"combat", "explore"}

\* the template string `mode:${mode}`
ModeTag(mode) == <<"mode", mode>>

ToolTagUniverse == {ModeTag("any"), ModeTag("combat"), ModeTag("explore"), <<"kind", "dice">>}

\* a tool whose tags field is missing, and the tools with a tags array
TaggedTools ==
  {[tagsDefined |-> FALSE, tags |-> {}]}
    \cup {[tagsDefined |-> TRUE, tags |-> t] : t \in SUBSET ToolTagUniverse}

\* tool.tags || []
TagsOf(tool) == IF tool.tagsDefined THEN tool.tags ELSE {}

\* the predicate of tools.filter
KeepsTool(tool, activeModes) ==
  IF TagsOf(tool) = {} THEN FALSE
  ELSE IF ModeTag("any") \in TagsOf(tool) THEN TRUE
  ELSE \E mode \in activeModes : ModeTag(mode) \in TagsOf(tool)

filterToolsByModes(tools, activeModes) ==
  IF activeModes = {} THEN tools
  ELSE SelectSeq(tools, LAMBDA tool : KeepsTool(tool, activeModes))

\* getToolsForProvider filters the tools of the server by the active modes
FilterCall ==
  /\ toolFilter.pc = "idle"
  /\ \E n \in 0..MaxTools :
       \E tools \in [1..n -> TaggedTools], activeModes \in SUBSET GameModes :
         toolFilter' = [pc |-> "called", tools |-> tools, activeModes |-> activeModes,
                        result |-> filterToolsByModes(tools, activeModes)]
  /\ UNCHANGED exceptToolFilter

NextToolFilter == FilterCall

SpecToolFilter == InitIdle /\ [][NextToolFilter]_vars

HasModeTag(tool) == \E t \in TagsOf(tool) : t[1] = "mode"

\* C38: with active modes, filterToolsByModes keeps a tool iff it has the tag
\* mode:any, or mode:X for an active mode X, or no mode tag at all; without
\* active modes it keeps every tool.
C38_FilterByModes ==
  LET keep(tool) ==
        \/ toolFilter.activeModes = {}
        \/ ModeTag("any") \in TagsOf(tool)
        \/ \E mode \in toolFilter.activeModes : ModeTag(mode) \in TagsOf(tool)
        \/ ~HasModeTag(tool)
  IN toolFilter.result = SelectSeq(toolFilter.tools, keep)


(***************************************************************************)
(* useStreamPagination: init, reset, addDelta, continueStreaming,          *)
(* interrupt and flushBuffer, called by the page in any order; flushBuffer *)
(* is the call made when the stream ends.                                  *)
(***************************************************************************)
exceptPager == <<chatVars, sampling, plain, strm, chatStore, rpcSt, mcpConn, toolFilter>>

PagerDeltas == {<<"a">>, <<"b">>}

\* init(msgId, viewportHeight)
PagerInit ==
  /\ \E viewportHeight \in 0..2 :
       pager' = [PagerIdle EXCEPT !.pageHeight = viewportHeight]
  /\ UNCHANGED exceptPager

\* reset()
PagerReset ==
  /\ pager' = PagerIdle
  /\ UNCHANGED exceptPager

Buffered_Dropped(buffer, delta) == buffer

\* buffer.value.push(delta)
Buffered(buffer, delta) == Append(buffer, delta)

\* addDelta(delta, estimatedHeightIncrease), while the stream is running
PagerAddDelta ==
  /\ ~pager.ended
  /\ Len(pager.passed) < MaxPagerDeltas
  /\ \E delta \in PagerDeltas, h \in 0..1 :
       LET p == [pager EXCEPT !.passed = Append(@, delta)]
       IN pager' =
            IF pager.mode = "interrupted" THEN p
            ELSE IF pager.mode = "paused"
              THEN [p EXCEPT !.buffer = Buffered(@, delta)]
            ELSE [p EXCEPT
                    !.renderedContent = @ \o delta,
                    !.currentHeight = @ + h,
                    !.mode = IF pager.pageHeight > 0
                                  /\ pager.currentHeight + h >= pager.pageHeight
                               THEN "paused" ELSE @,
                    !.returned = @ \o delta]
  /\ UNCHANGED exceptPager

\* continueStreaming()
PagerContinue ==
  /\ pager.mode = "paused"
  /\ pager' = [pager EXCEPT
                 !.buffer = <<>>,
                 !.renderedContent = @ \o Flatten(pager.buffer),
                 !.currentHeight = 0,
                 !.mode = "streaming",
                 !.returned = @ \o Flatten(pager.buffer),
                 !.released = IF pager.buffer # <<>> THEN 1 ELSE @]
  /\ UNCHANGED exceptPager

\* interrupt()
PagerInterrupt ==
  /\ pager.mode # "interrupted"
  /\ pager' = [pager EXCEPT !.mode = "interrupted", !.buffer = <<>>]
  /\ UNCHANGED exceptPager

\* flushBuffer(), called when the stream ends: with an empty buffer it
\* returns '' at once
PagerFlushBuffer ==
  /\ ~pager.ended
  /\ pager' = IF Len(pager.buffer) = 0 THEN [pager EXCEPT !.ended = TRUE]
              ELSE [pager EXCEPT
                      !.buffer = <<>>,
                      !.renderedContent = @ \o Flatten(pager.buffer),
                      !.mode = "streaming",
                      !.returned = @ \o Flatten(pager.buffer),
                      !.ended = TRUE]
  /\ UNCHANGED exceptPager

NextPager ==
  PagerInit \/ PagerReset \/ PagerAddDelta \/ PagerContinue \/ PagerInterrupt
    \/ PagerFlushBuffer

SpecPager == InitIdle /\ [][NextPager]_vars

\* C39: from init until an interrupt no text is lost, duplicated or
\* reordered: the rendered content followed by the buffered deltas is the
\* concatenation of all deltas passed to addDelta, deltas are buffered only
\* while paused, and the texts returned by addDelta, continueStreaming and
\* flushBuffer, in call order, make up the rendered content.
C39_PaginationKeepsText ==
  pager.mode # "interrupted" =>
    /\ pager.renderedContent \o Flatten(pager.buffer) = Flatten(pager.passed)
    /\ pager.buffer # <<>> => pager.mode = "paused"
    /\ pager.returned = pager.renderedContent

\* a page was filled twice: buffered deltas were released once and deltas
\* are buffered again
C39_Witness ==
  /\ pager.mode = "paused"
  /\ pager.released = 1
  /\ pager.buffer # <<>>

\* C40: flushBuffer at the end of the stream leaves a paginator that was not
\* interrupted in streaming mode with an empty buffer; after the stream has
\* ended and been flushed the paginator is never in paused mode.
C40_FlushLeavesStreaming ==
  pager.ended =>
    /\ pager.mode # "paused"
    /\ pager.mode # "interrupted" => (pager.mode = "streaming" /\ pager.buffer = <<>>)

====
